---- MODULE Spec2Model ----
(***************************************************************************)
(* ClawCRM: the meeting-ingestion pipeline (preview / confirm / quick      *)
(* log), the roster resolver and the WhatsApp chat import, modelled as a   *)
(* state machine over the SQLite tables.                                   *)
(*                                                                         *)
(* Strings whose characters matter (person names) are tuples of one-       *)
(* character strings; texts and summaries whose content is never inspected *)
(* are atoms.  A similarity score is an exact fraction <<num, den>>.       *)
(***************************************************************************)
EXTENDS Integers, Sequences, FiniteSets, TLC

VARIABLES db, reqs

vars == <<db, reqs>>

NULL == "null"

\* "absent" for a name, a person reference, an embedding and a response
NoName == <<>>
NoPerson == [id |-> 0, name |-> <<>>]
NoEmbedding == <<>>
NoResp == [status |-> 0]

(***************************************************************************)
(* Bounds of the model.                                                    *)
(***************************************************************************)
MaxRoster == 6
MaxMeetings == 2
MaxPeople == 2
MaxAssignments == 3
MaxNetMeetings == 1
MaxNetAssignments == 1
MaxQuickLogs == 2
MaxSeedPeople == 2
ConcRequests == 2
MaxMessages == 2
MaxCrmPeople == 2
MaxCrmMeetings == 2
MaxCrmAssignments == 2
MaxSweepRoster == 2
MaxTypoPeople == 3
MaxSentences == 3

(***************************************************************************)
(* Strings.                                                                *)
(***************************************************************************)
UpperAlpha == <<"A","B","C","D","E","F","G","H","I","J","K","L","M",
                "N","O","P","Q","R","S","T","U","V","W","X","Y","Z">>
LowerAlpha == <<"a","b","c","d","e","f","g","h","i","j","k","l","m",
                "n","o","p","q","r","s","t","u","v","w","x","y","z">>

LowerChar(c) ==
  IF \E i \in DOMAIN UpperAlpha : UpperAlpha[i] = c
  THEN LowerAlpha[CHOOSE i \in DOMAIN UpperAlpha : UpperAlpha[i] = c]
  ELSE c

\* String.prototype.toLowerCase
ToLowerCase(s) == SubSeq([i \in DOMAIN s |-> LowerChar(s[i])], 1, Len(s))

\* Fractions <<num, den>>, den > 0
FracGeq(a, b) == a[1] * b[2] >= b[1] * a[2]
FracGt(a, b) == a[1] * b[2] > b[1] * a[2]
FracEq(a, b) == a[1] * b[2] = b[1] * a[2]

\* string-similarity-js: the bigrams of a string, in order
RECURSIVE BigramsUpTo(_, _)
BigramsUpTo(s, n) ==
  IF n < 1 THEN <<>> ELSE Append(BigramsUpTo(s, n - 1), <<s[n], s[n + 1]>>)

Bigrams(s) == BigramsUpTo(s, Len(s) - 1)

\* its first loop: bigram -> number of occurrences in str1
BigramMap(b1) ==
  [g \in {b1[i] : i \in DOMAIN b1} |-> Cardinality({i \in DOMAIN b1 : b1[i] = g})]

\* its second loop: each bigram of str2 consumes one occurrence left in the map
RECURSIVE MatchLoop(_, _, _)
MatchLoop(map, b2, j) ==
  IF j > Len(b2) THEN 0
  ELSE IF b2[j] \in DOMAIN map /\ map[b2[j]] > 0
       THEN 1 + MatchLoop([map EXCEPT ![b2[j]] = @ - 1], b2, j + 1)
       ELSE MatchLoop(map, b2, j + 1)

\* stringSimilarity(str1, str2) with the default substring length 2
stringSimilarity(str1, str2) ==
  LET s1 == ToLowerCase(str1)
      s2 == ToLowerCase(str2)
  IN IF Len(s1) < 2 \/ Len(s2) < 2 THEN <<0, 1>>
     ELSE <<2 * MatchLoop(BigramMap(Bigrams(s1)), Bigrams(s2), 1),
            Len(s1) + Len(s2) - 2>>

(***************************************************************************)
(* The tables.  db is a record of the tables, each a sequence of rows in   *)
(* rowid order; a new row's id is one more than the number of rows (no     *)
(* operation modelled here deletes a row).                                 *)
(***************************************************************************)
\* seq is sqlite_sequence: the last id an AUTOINCREMENT key of each table took
EmptyDb ==
  [people |-> <<>>, meetings |-> <<>>, meetingPeople |-> <<>>,
   relationships |-> <<>>, settings |-> <<>>,
   seq |-> [people |-> 0, meetings |-> 0, meetingPeople |-> 0, relationships |-> 0]]

\* the acceptance threshold of handlePreview and the floor of its filter
AcceptThreshold == <<2, 5>>
CandidateFloor == <<1, 5>>
TopK == 5

UnknownPerson ==
  <<"U","n","k","n","o","w","n"," ","P","e","r","s","o","n">>

Range(f) == {f[i] : i \in DOMAIN f}

Take(s, n) == SubSeq(s, 1, IF Len(s) < n THEN Len(s) ELSE n)

\* Array.prototype.sort((a, b) => b.score - a.score): stable, descending
InsertDesc(sorted, e) ==
  LET later == {i \in DOMAIN sorted : FracGt(e.score, sorted[i].score)}
      pos == IF later = {} THEN Len(sorted) + 1
             ELSE CHOOSE i \in later : \A k \in later : i <= k
  IN SubSeq(sorted, 1, pos - 1) \o <<e>> \o SubSeq(sorted, pos, Len(sorted))

RECURSIVE SortByScoreDesc(_)
SortByScoreDesc(s) ==
  IF s = <<>> THEN <<>>
  ELSE InsertDesc(SortByScoreDesc(SubSeq(s, 1, Len(s) - 1)), s[Len(s)])

(***************************************************************************)
(* Settings and provider selection.                                        *)
(***************************************************************************)
\* getSettings.getVal: the value stored under key, "" when absent or empty
GetVal(d, key) ==
  LET rows == {i \in DOMAIN d.settings : d.settings[i].key = key}
  IN IF rows = {} THEN "" ELSE d.settings[CHOOSE i \in rows : TRUE].value

OrElse(v, dflt) == IF v = "" THEN dflt ELSE v

getSettings(d) ==
  [provider |-> OrElse(GetVal(d, "llm_provider"), "fallback"),
   apiKey |-> GetVal(d, "llm_api_key"),
   embeddingProvider |-> OrElse(GetVal(d, "embedding_provider"), "fallback")]

\* getLLM without the test for a missing key
getLLMUnguarded(d) ==
  LET st == getSettings(d)
  IN CASE st.provider = "openai" -> "OpenAIProvider"
       [] st.provider = "anthropic" -> "AnthropicProvider"
       [] st.provider \in {"gemini", "google"} -> "GeminiProvider"
       [] OTHER -> "FallbackProvider"

\* getLLM: the provider class it instantiates
getLLM(d) ==
  LET st == getSettings(d)
  IN IF st.apiKey = "" /\ st.provider # "fallback" THEN "FallbackProvider"
     ELSE CASE st.provider = "openai" -> "OpenAIProvider"
            [] st.provider = "anthropic" -> "AnthropicProvider"
            [] st.provider \in {"gemini", "google"} -> "GeminiProvider"
            [] OTHER -> "FallbackProvider"

\* getEmbedder: the provider class it instantiates
getEmbedder(d) ==
  LET st == getSettings(d)
  IN IF st.embeddingProvider = "openai" /\ st.apiKey # "" THEN "OpenAIProvider"
     ELSE IF st.embeddingProvider \in {"gemini", "google"} /\ st.apiKey # ""
          THEN "GeminiProvider"
          ELSE "FallbackProvider"

\* The settings table of an installation without keys, and of one that
\* uses OpenAI for extraction and embeddings.
OfflineSettings == <<>>
OpenAISettings ==
  <<[key |-> "llm_provider", value |-> "openai"],
    [key |-> "llm_api_key", value |-> "sk"],
    [key |-> "embedding_provider", value |-> "openai"]>>

(***************************************************************************)
(* Notes.  A note is an atom; what the offline extractor finds in it is    *)
(* given by NoteNames and NoteSummary.                                     *)
(***************************************************************************)
Abc == <<"a","b","c">>
Abxy == <<"a","b","x","y">>
Abxyz == <<"a","b","x","y","z">>
Xyz == <<"X","Y","Z">>
Ann == <<"A","n","n">>
Bob == <<"B","o","b">>
Anna == <<"A","n","n","a">>
Abba == <<"a","b","b","a">>
Bbab == <<"b","b","a","b">>

ResolveNames == {Abc, Abxy, Abxyz}
ResolveTexts == {"r1", "r2"}
IngestTexts == {"t1", "t2"}
ConfirmTexts == {"t1"}
ConfirmNames == {Ann}
QuickLogTexts == {"t1", "t3"}
SeedNames == {Anna, Xyz}

NoteNames(t) ==
  CASE t = "r1" -> <<Abc>>
    [] t = "r2" -> <<Xyz, Abxy>>
    [] t = "t1" -> <<Ann, Bob>>
    [] t = "t2" -> <<Anna>>
    [] t = "t3" -> <<Abba, Bbab>>
    [] OTHER -> <<>>

NoteSummary(t) ==
  CASE t \in {"r1", "t1"} -> "s1"
    [] OTHER -> "s2"

\* FallbackProvider.extractMultiMeetingData: names (the sentinel when none
\* survives), summary
extractMultiMeetingData(t) ==
  [namesIsArray |-> TRUE,
   names |-> IF NoteNames(t) = <<>> THEN <<UnknownPerson>> ELSE NoteNames(t),
   name |-> NoName,
   summary |-> NoteSummary(t)]

\* What the two LLM calls of handlePreview can come to: an object from
\* extractJSON or from JSON.parse of the chat reply (names an array, or the
\* legacy single name, or neither), an unparseable chat reply, or a chat
\* call that throws.  The offline provider always returns the first.
LLMOutcomes(llm, t) ==
  IF llm = "FallbackProvider"
  THEN {[kind |-> "object", obj |-> extractMultiMeetingData(t)]}
  ELSE {[kind |-> "object", obj |-> extractMultiMeetingData(t)],
        [kind |-> "object",
         obj |-> [namesIsArray |-> FALSE, names |-> <<>>,
                  name |-> NoteNames(t)[1], summary |-> NoteSummary(t)]],
        [kind |-> "object",
         obj |-> [namesIsArray |-> FALSE, names |-> <<>>,
                  name |-> NoName, summary |-> NoteSummary(t)]],
        [kind |-> "unparsed", obj |-> NULL],
        [kind |-> "throws", obj |-> NULL]}

(***************************************************************************)
(* handlePreview.                                                          *)
(***************************************************************************)
\* text.slice(0, 200), as a summary
Slice200(t) ==
  CASE t = "t1" -> "t1[0:200]"
    [] t = "t2" -> "t2[0:200]"
    [] t = "t3" -> "t3[0:200]"
    [] t = "r1" -> "r1[0:200]"
    [] OTHER -> "r2[0:200]"

\* lines 66-100: the extraction the handler goes on with
PreviewExtraction(t, out) ==
  IF out.kind = "unparsed"
  THEN [names |-> <<UnknownPerson>>, summary |-> Slice200(t)]
  ELSE IF out.obj.namesIsArray
       THEN [names |-> out.obj.names, summary |-> out.obj.summary]
       ELSE [names |-> IF out.obj.name # NoName THEN <<out.obj.name>>
                       ELSE <<UnknownPerson>>,
             summary |-> out.obj.summary]

\* (mutant) the slice taken before the sort
ScoredCandidatesSliceFirst(allPeople, extractedName) ==
  LET scoredAll ==
        [i \in DOMAIN allPeople |->
           [id |-> allPeople[i].id, name |-> allPeople[i].name,
            score |-> stringSimilarity(ToLowerCase(extractedName),
                                       ToLowerCase(allPeople[i].name))]]
      Keep(p) == FracGt(p.score, CandidateFloor)
  IN SortByScoreDesc(Take(SelectSeq(scoredAll, Keep), TopK))

\* lines 105-118: score, filter, sort, slice
ScoredCandidates(allPeople, extractedName) ==
  LET scoredAll ==
        [i \in DOMAIN allPeople |->
           [id |-> allPeople[i].id, name |-> allPeople[i].name,
            score |-> stringSimilarity(ToLowerCase(extractedName),
                                       ToLowerCase(allPeople[i].name))]]
      Keep(p) == FracGt(p.score, CandidateFloor)
  IN Take(SortByScoreDesc(SelectSeq(scoredAll, Keep)), TopK)

\* (mutant) the comparison with its operands exchanged
PersonMatchAtSwapped(allPeople, extractedName, threshold) ==
  LET scored == ScoredCandidates(allPeople, extractedName)
      accepted == Len(scored) > 0 /\ FracGeq(threshold, scored[1].score)
  IN [extractedName |-> extractedName,
      bestMatch |-> IF accepted
                    THEN [id |-> scored[1].id, name |-> scored[1].name]
                    ELSE NoPerson,
      candidates |-> scored,
      confidence |-> IF accepted THEN scored[1].score ELSE <<0, 1>>,
      isNew |-> ~accepted]

\* lines 120-130 with the literal 0.4 of line 120 as threshold
PersonMatchAt(allPeople, extractedName, threshold) ==
  LET scored == ScoredCandidates(allPeople, extractedName)
      accepted == Len(scored) > 0 /\ FracGeq(scored[1].score, threshold)
  IN [extractedName |-> extractedName,
      bestMatch |-> IF accepted
                    THEN [id |-> scored[1].id, name |-> scored[1].name]
                    ELSE NoPerson,
      candidates |-> scored,
      confidence |-> IF accepted THEN scored[1].score ELSE <<0, 1>>,
      isNew |-> ~accepted]

\* (mutant) a best match is accepted only above the threshold
PersonMatchStrict(allPeople, extractedName) ==
  LET scored == ScoredCandidates(allPeople, extractedName)
      accepted == Len(scored) > 0 /\ FracGt(scored[1].score, AcceptThreshold)
  IN [extractedName |-> extractedName,
      bestMatch |-> IF accepted
                    THEN [id |-> scored[1].id, name |-> scored[1].name]
                    ELSE NoPerson,
      candidates |-> scored,
      confidence |-> IF accepted THEN scored[1].score ELSE <<0, 1>>,
      isNew |-> ~accepted]

\* lines 120-130: one PersonMatch
PersonMatch(allPeople, extractedName) ==
  PersonMatchAt(allPeople, extractedName, AcceptThreshold)

\* (mutant) the preview saves a person for a first name that is new
handlePreviewCreating(d, t, out) ==
  IF out.kind = "throws"
  THEN [db |-> d, resp |-> [status |-> 500]]
  ELSE LET extraction == PreviewExtraction(t, out)
           first == PersonMatch(d.people, extraction.names[1])
       IN [db |-> IF first.isNew
                  THEN [d EXCEPT !.people =
                          Append(@, [id |-> d.seq.people + 1,
                                     name |-> first.extractedName,
                                     context |-> <<>>, embedding |-> NoEmbedding]),
                                 !.seq.people = @ + 1]
                  ELSE d,
           resp |-> [status |-> 200,
                     extraction |-> extraction,
                     matches |-> [k \in DOMAIN extraction.names |->
                                    PersonMatch(d.people, extraction.names[k])]]]

\* handlePreview(text): the tables afterwards and the response
handlePreview(d, t, out) ==
  IF out.kind = "throws"
  THEN [db |-> d, resp |-> [status |-> 500]]
  ELSE LET extraction == PreviewExtraction(t, out)
       IN [db |-> d,
           resp |-> [status |-> 200,
                     extraction |-> extraction,
                     matches |-> [k \in DOMAIN extraction.names |->
                                    PersonMatch(d.people, extraction.names[k])]]]

(***************************************************************************)
(* handleConfirm.  The handler suspends at each await of embedder.embed;   *)
(* the code between two awaits runs without interruption (the database     *)
(* calls are synchronous).  Each operator below is one such stretch and    *)
(* yields the tables, the handler's locals, where it suspended (pc) and    *)
(* the response once it has one.                                           *)
(*                                                                         *)
(* A people row is [id, name, context, embedding]; a context is the        *)
(* sequence of the pieces that were joined by a blank line (<<>>: null or  *)
(* empty); an embedding is <<>> (null) or <<the text embedded>>.  An        *)
(* assignment is [extractedName, personId, createNew, newName] with        *)
(* personId 0 and newName <<>> for "not given".                            *)
(***************************************************************************)
Embed(text) == <<text>>

PersonIndex(d, id) ==
  LET rows == {k \in DOMAIN d.people : d.people[k].id = id}
  IN IF rows = {} THEN 0 ELSE CHOOSE k \in rows : TRUE

\* db.insert(schema.people).values({name, context: summary}).returning()
InsertPerson(d, name, context) ==
  [d EXCEPT !.people =
     Append(@, [id |-> d.seq.people + 1, name |-> name, context |-> context,
                embedding |-> NoEmbedding]),
            !.seq.people = @ + 1]

\* lines 173-184
InsertMeeting(d, firstPersonId, text, summary, embeddingBuf, source, date) ==
  [d EXCEPT !.meetings =
     Append(@, [id |-> d.seq.meetings + 1, personId |-> firstPersonId,
                rawInput |-> text, summary |-> summary, embedding |-> embeddingBuf,
                source |-> source, date |-> date]),
            !.seq.meetings = @ + 1]

\* lines 218-220
InsertMeetingPerson(d, meetingId, personId) ==
  [d EXCEPT !.meetingPeople =
     Append(@, [id |-> d.seq.meetingPeople + 1, meetingId |-> meetingId,
                personId |-> personId]),
            !.seq.meetingPeople = @ + 1]

\* (mutant) the lookup in the orientation (a, b) only
FindRelationshipOneWay(rels, a, b) ==
  LET hits == {k \in DOMAIN rels : rels[k].personAId = a /\ rels[k].personBId = b}
  IN IF hits = {} THEN 0 ELSE CHOOSE k \in hits : \A h \in hits : k <= h

\* lines 265-269: the first row joining a and b, in either orientation
FindRelationship(rels, a, b) ==
  LET hits == {k \in DOMAIN rels :
                 \/ rels[k].personAId = a /\ rels[k].personBId = b
                 \/ rels[k].personAId = b /\ rels[k].personBId = a}
  IN IF hits = {} THEN 0 ELSE CHOOSE k \in hits : \A h \in hits : k <= h

\* (mutant) the insert without the lookup
UpsertRelationshipNoLookup(d, a, b) ==
  [d EXCEPT !.relationships =
     Append(@, [id |-> d.seq.relationships + 1, personAId |-> a, personBId |-> b,
                strength |-> 1]),
            !.seq.relationships = @ + 1]

\* lines 264-288: increment the pair's row or insert it with strength 1
UpsertRelationship(d, a, b) ==
  LET k == FindRelationship(d.relationships, a, b)
  IN IF k # 0
     THEN [d EXCEPT !.relationships[k].strength = (IF @ = 0 THEN 1 ELSE @) + 1]
     ELSE [d EXCEPT !.relationships =
             Append(@, [id |-> d.seq.relationships + 1, personAId |-> a,
                        personBId |-> b, strength |-> 1]),
                     !.seq.relationships = @ + 1]

\* lines 258-291: the pair loop over linkedPeople, i < j
RECURSIVE PairLoop(_, _, _, _)
PairLoop(d, linked, i, j) ==
  IF i > Len(linked) THEN d
  ELSE IF j > Len(linked) THEN PairLoop(d, linked, i + 1, i + 2)
       ELSE PairLoop(UpsertRelationship(d, linked[i], linked[j]), linked, i, j + 1)

LinkRelationships(d, linked) ==
  IF Len(linked) > 1 THEN PairLoop(d, linked, 1, 2) ELSE d

\* lines 230-232
UpdatedContext(context, summary) ==
  IF context # <<>> THEN Append(context, summary) ELSE <<summary>>

\* lines 156-162: up to the await of embedder.embed(text)
ConfirmBegin(d, body) ==
  [db |-> d,
   loc |-> [embedder |-> getEmbedder(d), meetingId |-> 0, i |-> 1, personId |-> 0,
            updatedContext |-> <<>>, linkedPeople |-> <<>>],
   pc |-> "embedMeeting", resp |-> NoResp]

\* lines 189-235 for assignment loc.i, up to the await of
\* embedder.embed(updatedContext); past the last assignment, lines 257-296.
\* The junction insert of a person id that has no row fails on its foreign
\* key and the handler throws.
ConfirmLoop(d, body, loc) ==
  IF loc.i > Len(body.assignments)
  THEN [db |-> LinkRelationships(d, loc.linkedPeople), loc |-> loc, pc |-> "done",
        resp |-> [status |-> 200, meetingId |-> loc.meetingId,
                  linkedPeople |-> loc.linkedPeople]]
  ELSE LET a == body.assignments[loc.i]
           create == a.createNew \/ a.personId = 0
           d1 == IF create
                 THEN InsertPerson(d, IF a.newName # <<>> THEN a.newName
                                      ELSE a.extractedName, <<body.summary>>)
                 ELSE d
           personId == IF create THEN d1.seq.people ELSE a.personId
           k == PersonIndex(d1, personId)
           linked == IF k # 0 THEN Append(loc.linkedPeople, personId)
                     ELSE loc.linkedPeople
       IN IF k = 0
          THEN [db |-> d1, loc |-> loc, pc |-> "done", resp |-> [status |-> 500]]
          ELSE [db |-> InsertMeetingPerson(d1, loc.meetingId, personId),
                loc |-> [loc EXCEPT !.personId = personId,
                                    !.linkedPeople = linked,
                                    !.updatedContext =
                                      UpdatedContext(d1.people[k].context, body.summary)],
                pc |-> "embedPerson", resp |-> NoResp]

\* (mutant) embed(text) outside any try: its throw ends the handler
ConfirmAfterMeetingEmbedNoCatch(d, body, loc, ok) ==
  IF ~ok
  THEN [db |-> d, loc |-> loc, pc |-> "done", resp |-> [status |-> 500]]
  ELSE LET firstPersonId == IF Len(body.assignments) > 0 /\ body.assignments[1].personId # 0
                            THEN body.assignments[1].personId ELSE 0
           d1 == InsertMeeting(d, firstPersonId, body.text, body.summary, Embed(body.text),
                               "manual", "now")
       IN ConfirmLoop(d1, body, [loc EXCEPT !.meetingId = d1.seq.meetings])

\* lines 163-187: embed(text) has settled (ok: it returned); insert the meeting
ConfirmAfterMeetingEmbed(d, body, loc, ok) ==
  LET embeddingBuf == IF ok THEN Embed(body.text) ELSE NoEmbedding
      firstPersonId == IF Len(body.assignments) > 0 /\ body.assignments[1].personId # 0
                       THEN body.assignments[1].personId ELSE 0
      d1 == InsertMeeting(d, firstPersonId, body.text, body.summary, embeddingBuf,
                          "manual", "now")
  IN ConfirmLoop(d1, body, [loc EXCEPT !.meetingId = d1.seq.meetings])

\* lines 235-253: embed(updatedContext) has settled; update the person, go on
ConfirmAfterPersonEmbed(d, body, loc, ok) ==
  LET k == PersonIndex(d, loc.personId)
      d1 == IF k = 0 THEN d
            ELSE IF ok
                 THEN [d EXCEPT !.people[k].context = loc.updatedContext,
                                !.people[k].embedding = Embed(loc.updatedContext)]
                 ELSE [d EXCEPT !.people[k].context = loc.updatedContext]
  IN ConfirmLoop(d1, body, [loc EXCEPT !.i = @ + 1])

\* whether a call of embedder.embed can throw: only a networked provider's
EmbedOutcomes(embedder) ==
  IF embedder = "FallbackProvider" THEN {TRUE} ELSE {TRUE, FALSE}

(***************************************************************************)
(* Requests.  reqs[s] is the request being served in slot s: its kind, the *)
(* await it is suspended at (pc), its body, the handler's locals, the      *)
(* tables as they were when it arrived (pre) and its response; for a quick *)
(* log also the preview's response and what the slot's previous request    *)
(* was (prev), when that was a quick log too.                              *)
(***************************************************************************)
NoPrev == [kind |-> "none", text |-> "", status |-> 0, pre |-> EmptyDb]

Idle == [kind |-> "idle", pc |-> "idle", body |-> NULL, loc |-> NULL,
         pre |-> NULL, preview |-> NULL, resp |-> NoResp, prev |-> NoPrev]

Free(s) == reqs[s].pc \in {"idle", "done"}

Put(s, r) == reqs' = [reqs EXCEPT ![s] = r]

\* POST /api/meetings/process without confirm: up to the await of the LLM
StartPreview(s, t) ==
  /\ Free(s)
  /\ Put(s, [kind |-> "preview", pc |-> "llm", body |-> [text |-> t],
             loc |-> [llm |-> getLLM(db), allPeople |-> <<>>], pre |-> db, preview |-> NULL,
             resp |-> NoResp, prev |-> NoPrev])
  /\ UNCHANGED db

\* (mutant) every name is created, whatever the preview matched
AutoAssignmentsAllNew(matches) ==
  [k \in DOMAIN matches |->
     [extractedName |-> matches[k].extractedName, personId |-> 0, createNew |-> TRUE,
      newName |-> <<>>]]

\* openclaw/log lines 33-37: the assignments built from the preview's matches
AutoAssignments(matches) ==
  [k \in DOMAIN matches |->
     [extractedName |-> matches[k].extractedName,
      personId |-> IF matches[k].bestMatch # NoPerson THEN matches[k].bestMatch.id ELSE 0,
      createNew |-> matches[k].bestMatch = NoPerson,
      newName |-> <<>>]]

\* The LLM calls settle and handlePreview runs to its response.  Within a
\* quick log (openclaw/log lines 25-49) a failed preview ends the request
\* and a successful one is followed by the confirm call.
PreviewSettles(s) ==
  /\ reqs[s].pc = "llm"
  /\ \E out \in LLMOutcomes(reqs[s].loc.llm, reqs[s].body.text) :
       LET r == handlePreview(db, reqs[s].body.text, out)
       IN /\ db' = r.db
          /\ IF reqs[s].kind = "preview" \/ r.resp.status # 200
             THEN Put(s, [reqs[s] EXCEPT !.pc = "done", !.resp = r.resp,
                                         !.loc.allPeople = db.people])
             ELSE LET body == [text |-> reqs[s].body.text,
                               summary |-> r.resp.extraction.summary,
                               assignments |-> AutoAssignments(r.resp.matches)]
                      c == ConfirmBegin(r.db, body)
                  IN Put(s, [reqs[s] EXCEPT !.pc = c.pc, !.body = body,
                                            !.loc = c.loc, !.preview = r.resp,
                                            !.resp = c.resp])

\* people entered by hand (POST /api/persons), without context
RosterOf(names) ==
  [i \in DOMAIN names |->
     [id |-> i, name |-> names[i], context |-> <<>>, embedding |-> NoEmbedding]]

RECURSIVE SeqsUpTo(_, _)
SeqsUpTo(S, n) ==
  IF n = 0 THEN {<<>>}
  ELSE LET shorter == SeqsUpTo(S, n - 1)
       IN shorter \cup {Append(q, x) : q \in {r \in shorter : Len(r) = n - 1}, x \in S}

\* For the caps on the tables: the meetings and people that the requests in
\* flight may still insert.
PendingMeetings(s) ==
  IF reqs[s].pc = "embedMeeting" \/ (reqs[s].pc = "llm" /\ reqs[s].kind = "quicklog")
  THEN 1 ELSE 0

PendingPeople(s) ==
  IF reqs[s].pc = "llm" /\ reqs[s].kind = "quicklog"
  THEN Len(NoteNames(reqs[s].body.text))
  ELSE IF reqs[s].pc \in {"embedMeeting", "embedPerson"}
       THEN Cardinality({k \in DOMAIN reqs[s].body.assignments :
                           /\ k >= reqs[s].loc.i
                           /\ ~(reqs[s].pc = "embedPerson" /\ k = reqs[s].loc.i)
                           /\ \/ reqs[s].body.assignments[k].createNew
                              \/ reqs[s].body.assignments[k].personId = 0})
       ELSE 0

RECURSIVE PendingMeetingsUpTo(_)
PendingMeetingsUpTo(n) ==
    IF n = 0 THEN 0 ELSE PendingMeetings(n) + PendingMeetingsUpTo(n - 1)

RECURSIVE PendingPeopleUpTo(_)
PendingPeopleUpTo(n) ==
    IF n = 0 THEN 0 ELSE PendingPeople(n) + PendingPeopleUpTo(n - 1)

RoomForMeeting(max) == db.seq.meetings + PendingMeetingsUpTo(Len(reqs)) < max
RoomForPeople(n, max) == db.seq.people + PendingPeopleUpTo(Len(reqs)) + n <= max

\* The assignments a caller can send: link a person of the roster, or create
\* a person under one of the names.
LinkTo(p) == [extractedName |-> p.name, personId |-> p.id, createNew |-> FALSE,
              newName |-> NoName]
CreateAs(n) == [extractedName |-> n, personId |-> 0, createNew |-> TRUE,
                newName |-> NoName]

AssignmentChoices(d, names) ==
  {LinkTo(d.people[k]) : k \in DOMAIN d.people} \cup {CreateAs(n) : n \in names}

Creates(assignments) ==
  Cardinality({k \in DOMAIN assignments : assignments[k].createNew})

\* POST /api/meetings/process with confirm: up to the first await
StartConfirm(s, body) ==
  /\ Free(s)
  /\ LET c == ConfirmBegin(db, body)
     IN /\ db' = c.db
        /\ Put(s, [kind |-> "confirm", pc |-> c.pc, body |-> body, loc |-> c.loc,
                   pre |-> db, preview |-> NULL, resp |-> c.resp, prev |-> NoPrev])

\* await embedder.embed(text) settles: it returned a vector, or it threw
ConfirmMeetingEmbedSettles(s) ==
  /\ reqs[s].pc = "embedMeeting"
  /\ \E ok \in EmbedOutcomes(reqs[s].loc.embedder) :
       LET c == ConfirmAfterMeetingEmbed(db, reqs[s].body, reqs[s].loc, ok)
       IN /\ db' = c.db
          /\ Put(s, [reqs[s] EXCEPT !.pc = c.pc, !.loc = c.loc, !.resp = c.resp])

\* await embedder.embed(updatedContext) settles
ConfirmPersonEmbedSettles(s) ==
  /\ reqs[s].pc = "embedPerson"
  /\ \E ok \in EmbedOutcomes(reqs[s].loc.embedder) :
       LET c == ConfirmAfterPersonEmbed(db, reqs[s].body, reqs[s].loc, ok)
       IN /\ db' = c.db
          /\ Put(s, [reqs[s] EXCEPT !.pc = c.pc, !.loc = c.loc, !.resp = c.resp])

\* POST /api/openclaw/log: up to the await of the preview call's LLM
StartQuickLog(s, t) ==
  /\ Free(s)
  /\ Put(s, [kind |-> "quicklog", pc |-> "llm", body |-> [text |-> t],
             loc |-> [llm |-> getLLM(db), allPeople |-> <<>>], pre |-> db,
             preview |-> NULL, resp |-> NoResp,
             prev |-> IF reqs[s].kind = "quicklog"
                      THEN [kind |-> "quicklog", text |-> reqs[s].body.text,
                            status |-> reqs[s].resp.status, pre |-> reqs[s].pre]
                      ELSE NoPrev])
  /\ UNCHANGED db

(***************************************************************************)
(* Ingestion, one request after another, offline: previews and confirms    *)
(* with any assignments.                                                   *)
(***************************************************************************)
ConfirmBodies(d, texts, names, maxLen) ==
  {[text |-> t, summary |-> NoteSummary(t), assignments |-> a] :
     t \in texts, a \in SeqsUpTo(AssignmentChoices(d, names), maxLen)}

Init ==
  /\ db = [EmptyDb EXCEPT !.settings = OfflineSettings]
  /\ reqs = [s \in {1} |-> Idle]

PreviewArrives == \E s \in DOMAIN reqs, t \in IngestTexts : StartPreview(s, t)

LLMSettles == \E s \in DOMAIN reqs : PreviewSettles(s)

ConfirmArrives ==
  /\ RoomForMeeting(MaxMeetings)
  /\ \E s \in DOMAIN reqs,
        body \in ConfirmBodies(db, ConfirmTexts, ConfirmNames, MaxAssignments) :
       /\ RoomForPeople(Creates(body.assignments), MaxPeople)
       /\ StartConfirm(s, body)

MeetingEmbedSettles == \E s \in DOMAIN reqs : ConfirmMeetingEmbedSettles(s)

PersonEmbedSettles == \E s \in DOMAIN reqs : ConfirmPersonEmbedSettles(s)

Next ==
  \/ PreviewArrives
  \/ LLMSettles
  \/ ConfirmArrives
  \/ MeetingEmbedSettles
  \/ PersonEmbedSettles

Spec == Init /\ [][Next]_vars

(***************************************************************************)
(* The same with a networked provider configured and one person entered by *)
(* hand: the LLM and the embedder can fail.                                *)
(***************************************************************************)
InitNetworked ==
  /\ db = [EmptyDb EXCEPT !.people = RosterOf(<<Ann>>), !.seq.people = 1,
                          !.settings = OpenAISettings]
  /\ reqs = [s \in {1} |-> Idle]

NetConfirmArrives ==
  /\ RoomForMeeting(MaxNetMeetings)
  /\ \E s \in DOMAIN reqs,
        body \in ConfirmBodies(db, ConfirmTexts, ConfirmNames, MaxNetAssignments) :
       /\ RoomForPeople(Creates(body.assignments), MaxPeople)
       /\ StartConfirm(s, body)

NextNetworked ==
  \/ PreviewArrives
  \/ LLMSettles
  \/ NetConfirmArrives
  \/ MeetingEmbedSettles
  \/ PersonEmbedSettles

SpecNetworked == InitNetworked /\ [][NextNetworked]_vars

(***************************************************************************)
(* Quick logs, one after another, offline, over a roster seeded with       *)
(* people that were entered by hand.                                       *)
(***************************************************************************)
InitQuickLog ==
  /\ \E names \in SeqsUpTo(SeedNames, MaxSeedPeople) :
       db = [EmptyDb EXCEPT !.people = RosterOf(names), !.seq.people = Len(names)]
  /\ reqs = [s \in {1} |-> Idle]

QuickLogArrives ==
  /\ RoomForMeeting(MaxQuickLogs)
  /\ \E s \in DOMAIN reqs, t \in QuickLogTexts : StartQuickLog(s, t)

NextQuickLog ==
  \/ QuickLogArrives
  \/ LLMSettles
  \/ MeetingEmbedSettles
  \/ PersonEmbedSettles

SpecQuickLog == InitQuickLog /\ [][NextQuickLog]_vars

(***************************************************************************)
(* Concurrent confirms, each linking the two people of the roster, with a  *)
(* networked embedder: the handlers interleave at their awaits.            *)
(***************************************************************************)
InitConc ==
  /\ db = [EmptyDb EXCEPT !.people = RosterOf(<<Ann, Bob>>), !.seq.people = 2,
                          !.settings = OpenAISettings]
  /\ reqs = [s \in 1 .. ConcRequests |-> Idle]

ConcBodies(d) ==
  {b \in ConfirmBodies(d, ConfirmTexts, {}, 2) :
     Len(b.assignments) = 2 /\ b.assignments[1] # b.assignments[2]}

ConcConfirmArrives ==
  \E s \in DOMAIN reqs, body \in ConcBodies(db) :
    /\ reqs[s].pc = "idle"
    /\ StartConfirm(s, body)

NextConc ==
  \/ ConcConfirmArrives
  \/ MeetingEmbedSettles
  \/ PersonEmbedSettles

SpecConc == InitConc /\ [][NextConc]_vars

(***************************************************************************)
(* The resolver alone: every roster of up to MaxRoster people, previews.   *)
(***************************************************************************)
InitResolve ==
  /\ \E names \in SeqsUpTo(ResolveNames, MaxRoster) :
       db = [EmptyDb EXCEPT !.people = RosterOf(names), !.seq.people = Len(names)]
  /\ reqs = [s \in {1} |-> Idle]

ResolvePreviewArrives ==
  \E s \in DOMAIN reqs, t \in ResolveTexts : StartPreview(s, t)

NextResolve ==
  \/ ResolvePreviewArrives
  \/ LLMSettles

SpecResolve == InitResolve /\ [][NextResolve]_vars

(***************************************************************************)
(* The people routes (api/persons and api/persons/[id]) next to confirms,  *)
(* one request after another, offline.  The handlers of the people routes  *)
(* await only the request's parameters and body, so each is one step.      *)
(***************************************************************************)
SelectRows(rows, keep) ==
  LET Kept(r) == r \in keep IN SelectSeq(rows, Kept)

\* body.name ?? existing.name: only an absent (or null) key falls back
Coalesce(body, key, fallback) == IF key \in DOMAIN body THEN body[key] ELSE fallback

\* POST /api/persons, lines 37-66
PersonsPOST(d, body) ==
  IF body.name = <<>>
  THEN [db |-> d, resp |-> [status |-> 400]]
  ELSE [db |-> InsertPerson(d, body.name, body.context), resp |-> [status |-> 201]]

\* PUT /api/persons/[id], lines 81-112; id is the route parameter, parsed
PersonPUT(d, id, body) ==
  LET k == PersonIndex(d, id)
  IN IF k = 0
     THEN [db |-> d, resp |-> [status |-> 404]]
     ELSE [db |-> [d EXCEPT !.people[k].name = Coalesce(body, "name", @)],
           resp |-> [status |-> 200]]

\* ON DELETE CASCADE of the schema: meetings.personId (line 23),
\* relationships.personAId and personBId (lines 35-36), meetingPeople.meetingId
\* and personId (lines 57-58)
CascadeDeletePerson(d, personId) ==
  LET meetings == {m \in Range(d.meetings) : m.personId # personId}
      meetingIds == {m.id : m \in meetings}
  IN [d EXCEPT
        !.people = SelectRows(@, {p \in Range(@) : p.id # personId}),
        !.meetings = SelectRows(@, meetings),
        !.meetingPeople =
          SelectRows(@, {l \in Range(@) : l.personId # personId /\ l.meetingId \in meetingIds}),
        !.relationships =
          SelectRows(@, {r \in Range(@) : r.personAId # personId /\ r.personBId # personId})]

\* DELETE /api/persons/[id], lines 114-122
PersonDELETE(d, id) ==
  [db |-> CascadeDeletePerson(d, id), resp |-> [status |-> 200]]

\* a request to the people routes, served in one step
Serve(s, kind, body, r) ==
  /\ Free(s)
  /\ db' = r.db
  /\ Put(s, [kind |-> kind, pc |-> "done", body |-> body, loc |-> NULL, pre |-> db,
             preview |-> NULL, resp |-> r.resp, prev |-> NoPrev])

CrmNames == {Ann, Bob}
PostBodies == {[name |-> n, context |-> <<>>] : n \in CrmNames \cup {<<>>}}
PutBodies == {[name |-> n] : n \in CrmNames \cup {<<>>}} \cup {[phone |-> "p"]}

InitCrm ==
  /\ db = [EmptyDb EXCEPT !.settings = OfflineSettings]
  /\ reqs = [s \in {1} |-> Idle]

PersonCreated ==
  \E s \in DOMAIN reqs, body \in PostBodies :
    /\ db.seq.people < MaxCrmPeople
    /\ Serve(s, "personPost", body, PersonsPOST(db, body))

PersonUpdated ==
  \E s \in DOMAIN reqs, id \in 1 .. db.seq.people, body \in PutBodies :
    Serve(s, "personPut", [id |-> id, name |-> Coalesce(body, "name", NoName),
                           named |-> "name" \in DOMAIN body],
          PersonPUT(db, id, body))

PersonDeleted ==
  \E s \in DOMAIN reqs, id \in 1 .. db.seq.people :
    Serve(s, "personDelete", [id |-> id], PersonDELETE(db, id))

CrmConfirmArrives ==
  /\ RoomForMeeting(MaxCrmMeetings)
  /\ \E s \in DOMAIN reqs,
        body \in ConfirmBodies(db, ConfirmTexts, {Ann, <<>>}, MaxCrmAssignments) :
       /\ RoomForPeople(Creates(body.assignments), MaxCrmPeople)
       /\ StartConfirm(s, body)

NextCrm ==
  \/ PersonCreated
  \/ PersonUpdated
  \/ PersonDeleted
  \/ CrmConfirmArrives
  \/ MeetingEmbedSettles
  \/ PersonEmbedSettles

SpecCrm == InitCrm /\ [][NextCrm]_vars

(***************************************************************************)
(* The WhatsApp chat import (lib/sync/whatsapp-sync.ts).  A parsed chat is *)
(* its messages, each [sender, day] with the sender trimmed and the day    *)
(* the UTC day of its timestamp, and its participants.  A person map is    *)
(* the sequence of [name, id] entries in insertion order.                  *)
(***************************************************************************)
Days == <<"2026-01-18", "2026-01-19">>

\* new Date(day).toISOString(), and SQLite's date() of it
ToISOString(day) == <<day, "T00:00:00.000Z">>
SqlDate(iso) == iso[1]

\* String.prototype.trim
RECURSIVE Trim(_)
Trim(s) ==
  IF s = <<>> THEN s
  ELSE IF Head(s) = " " THEN Trim(Tail(s))
       ELSE IF s[Len(s)] = " " THEN Trim(SubSeq(s, 1, Len(s) - 1))
            ELSE s

\* String.prototype.includes
Includes(a, b) == \E i \in 0 .. (Len(a) - Len(b)) : SubSeq(a, i + 1, i + Len(b)) = b

\* s.split(/\s+/) of a trimmed string: the tokens of s[1..n] with cur the
\* token under way
RECURSIVE SplitLoop(_, _, _, _)
SplitLoop(s, i, cur, done) ==
  IF i > Len(s) THEN Append(done, cur)
  ELSE IF s[i] = " "
       THEN IF i > 1 /\ s[i - 1] = " "
            THEN SplitLoop(s, i + 1, cur, done)
            ELSE SplitLoop(s, i + 1, <<>>, Append(done, cur))
       ELSE SplitLoop(s, i + 1, Append(cur, s[i]), done)

SplitWhitespace(s) == SplitLoop(s, 1, <<>>, <<>>)

Max(a, b) == IF a > b THEN a ELSE b

\* lines 30-34: the share of tokens of a that are tokens of b
TokenOverlap(tokensA, tokensB) ==
  <<Cardinality({i \in DOMAIN tokensA : tokensA[i] \in Range(tokensB)}),
    Max(Len(tokensA), Len(tokensB))>>

\* lines 26-34, on the lowered and trimmed names
ScoreLowered(la, lb) ==
  IF la = lb THEN <<1, 1>>
  ELSE IF Includes(la, lb) \/ Includes(lb, la) THEN <<4, 5>>
       ELSE TokenOverlap(SplitWhitespace(la), SplitWhitespace(lb))

\* lines 23-35
nameMatchScore(a, b) == ScoreLowered(Trim(ToLowerCase(a)), Trim(ToLowerCase(b)))

FuzzyThreshold == <<7, 10>>
ImportedContext == <<"Imported from WhatsApp">>

\* lines 84-88: person k against the best so far
Better(best, k, score) ==
  IF FracGt(score, best.bestScore) THEN [bestMatch |-> k, bestScore |-> score] ELSE best

\* lines 81-89: the first person with the highest score above 0, 0 if none
RECURSIVE FuzzyLoop(_, _, _, _)
FuzzyLoop(allPeople, name, k, best) ==
  IF k > Len(allPeople) THEN best
  ELSE FuzzyLoop(allPeople, name, k + 1,
                 Better(best, k, nameMatchScore(name, allPeople[k].name)))

Found(d, k) ==
  [db |-> d, threw |-> FALSE, id |-> d.people[k].id, isNew |-> FALSE,
   matchedName |-> d.people[k].name]

\* line 91 with FUZZY_THRESHOLD as threshold
FuzzyAccepts(fuzzy, threshold) ==
  fuzzy.bestMatch # 0 /\ FracGeq(fuzzy.bestScore, threshold)

\* lines 91-112: the fuzzy match if it reaches the threshold, else a new person
FuzzyOrCreate(d, name, fuzzy) ==
  IF FuzzyAccepts(fuzzy, FuzzyThreshold)
  THEN Found(d, fuzzy.bestMatch)
  ELSE [db |-> InsertPerson(d, name, ImportedContext), threw |-> FALSE,
        id |-> d.seq.people + 1, isNew |-> TRUE, matchedName |-> name]

\* lines 63-112: exact are the rows whose name is name, case aside
ExactOrFuzzy(d, name, exact) ==
  IF exact # {}
  THEN Found(d, CHOOSE x \in exact : \A y \in exact : x <= y)
  ELSE FuzzyOrCreate(d, name, FuzzyLoop(d.people, name, 1, [bestMatch |-> 0, bestScore |-> <<0, 1>>]))

\* lines 40-113, called without a whatsappId: the tables afterwards and the
\* person found or created; threw: it threw "SELF"
findOrCreatePerson(d, name) ==
  IF ToLowerCase(name) \in {<<"y","o","u">>, <<"d","u">>, <<"i","c","h">>}
  THEN [db |-> d, threw |-> TRUE, id |-> 0, isNew |-> FALSE, matchedName |-> NoName]
  ELSE ExactOrFuzzy(d, name,
         {k \in DOMAIN d.people : ToLowerCase(d.people[k].name) = ToLowerCase(name)})

\* lines 119-137
meetingExists(d, personId, date, source) ==
  \E m \in DOMAIN d.meetings, j \in DOMAIN d.meetingPeople :
    /\ d.meetings[m].id = d.meetingPeople[j].meetingId
    /\ d.meetings[m].source = source
    /\ d.meetingPeople[j].personId = personId
    /\ SqlDate(d.meetings[m].date) = date

\* [...new Set(names)]: the first occurrences, in order
RECURSIVE Uniq(_)
Uniq(names) ==
  IF names = <<>> THEN <<>>
  ELSE LET front == Uniq(SubSeq(names, 1, Len(names) - 1))
           last == names[Len(names)]
       IN IF last \in Range(front) THEN front ELSE Append(front, last)

Senders(messages) == [i \in DOMAIN messages |-> messages[i].sender]

\* whatsapp-parser.ts, parseWhatsAppExport: what it returns for a file with
\* these messages
ParsedChat(messages) == [messages |-> messages, participants |-> Uniq(Senders(messages))]

\* whatsapp-parser.ts lines 172-194: one segment per day, ascending
RECURSIVE SegmentsUpTo(_, _)
SegmentsUpTo(parsed, n) ==
  IF n = 0 THEN <<>>
  ELSE LET OnDay(m) == m.day = Days[n]
           msgs == SelectSeq(parsed.messages, OnDay)
           before == SegmentsUpTo(parsed, n - 1)
       IN IF msgs = <<>> THEN before
          ELSE Append(before, [date |-> Days[n], participants |-> Uniq(Senders(msgs)),
                               messages |-> msgs])

groupByDay(parsed) == SegmentsUpTo(parsed, Len(Days))

MapHas(m, name) == \E i \in DOMAIN m : m[i].name = name
MapGet(m, name) == IF MapHas(m, name) THEN m[CHOOSE i \in DOMAIN m : m[i].name = name].id ELSE 0
MapSet(m, name, id) ==
  IF MapHas(m, name)
  THEN [i \in DOMAIN m |-> IF m[i].name = name THEN [name |-> name, id |-> id] ELSE m[i]]
  ELSE Append(m, [name |-> name, id |-> id])

\* lines 161-163
SelfNames(selfName) ==
  {<<"y","o","u">>, <<"d","u">>, <<"i","c","h">>}
    \cup (IF selfName # NoName THEN {ToLowerCase(selfName)} ELSE {})

\* (mutant) the participant compared as written
IsSelfAsWritten(selfNames, p) == p \in selfNames

\* lines 170 and 195: selfNames.has(p.toLowerCase())
IsSelf(selfNames, p) == ToLowerCase(p) \in selfNames

NoResult == [status |-> 0, contactsSynced |-> 0, newPeople |-> <<>>, matchedPeople |-> <<>>,
             meetingsCreated |-> 0, messagesSynced |-> 0]

\* lines 174-181: the person found or created for participant p
ContactSynced(acc, p, person) ==
  IF person.threw THEN acc
  ELSE [db |-> person.db,
        personMap |-> MapSet(acc.personMap, p, person.id),
        result |-> [acc.result EXCEPT
          !.contactsSynced = @ + 1,
          !.newPeople = IF person.isNew THEN Append(@, p) ELSE @,
          !.matchedPeople =
            IF person.isNew THEN @
            ELSE Append(@, [participant |-> p, matchedName |-> person.matchedName])]]

\* lines 170-185: one participant; acc is the tables, the person map and
\* the result so far
ContactStep(selfNames, p, acc) ==
  IF IsSelf(selfNames, p) THEN acc
  ELSE ContactSynced(acc, p, findOrCreatePerson(acc.db, p))

\* lines 168-187: the contacts loop from participant k on
RECURSIVE ContactsLoop(_, _, _, _)
ContactsLoop(participants, selfNames, k, acc) ==
  IF k > Len(participants) THEN acc
  ELSE ContactsLoop(participants, selfNames, k + 1,
                    ContactStep(selfNames, participants[k], acc))

Ensured(acc, p, person) ==
  IF person.threw THEN acc
  ELSE [acc EXCEPT !.db = person.db, !.personMap = MapSet(acc.personMap, p, person.id)]

\* lines 200-209: every other participant into the person map
RECURSIVE EnsureLoop(_, _, _)
EnsureLoop(others, k, acc) ==
  IF k > Len(others) THEN acc
  ELSE EnsureLoop(others, k + 1,
                  IF MapHas(acc.personMap, others[k]) THEN acc
                  ELSE Ensured(acc, others[k], findOrCreatePerson(acc.db, others[k])))

\* lines 244-249
RECURSIVE LinkAll(_, _, _, _)
LinkAll(d, meetingId, personIds, k) ==
  IF k > Len(personIds) THEN d
  ELSE LinkAll(InsertMeetingPerson(d, meetingId, personIds[k]), meetingId, personIds, k + 1)

\* lines 230-252: the meeting of a segment, linked to personIds
MeetingCreated(acc, segment, otherParticipants, personIds, meetingId) ==
  [db |-> LinkAll(InsertMeeting(acc.db, personIds[1], segment.messages,
                                [with |-> otherParticipants,
                                 msgCount |-> Len(segment.messages)],
                                NoEmbedding, "whatsapp", ToISOString(segment.date)),
                  meetingId, personIds, 1),
   personMap |-> acc.personMap,
   result |-> [acc.result EXCEPT !.meetingsCreated = @ + 1,
                                 !.messagesSynced = @ + Len(segment.messages)]]

\* lines 211-257: acc is after the participants were ensured
SegmentOf(acc, segment, otherParticipants, personIds) ==
  IF personIds = <<>> \/ meetingExists(acc.db, personIds[1], segment.date, "whatsapp")
  THEN acc
  ELSE MeetingCreated(acc, segment, otherParticipants, personIds, acc.db.seq.meetings + 1)

Known(id) == id # 0

\* lines 211-213
PersonIds(personMap, otherParticipants) ==
  SelectSeq([i \in DOMAIN otherParticipants |-> MapGet(personMap, otherParticipants[i])],
            Known)

SegmentEnsured(acc, segment, otherParticipants) ==
  SegmentOf(acc, segment, otherParticipants, PersonIds(acc.personMap, otherParticipants))

\* lines 197-257
SegmentOthers(acc, segment, otherParticipants) ==
  IF otherParticipants = <<>> THEN acc
  ELSE SegmentEnsured(EnsureLoop(otherParticipants, 1, acc), segment, otherParticipants)

\* lines 193-257: one segment
SyncSegment(selfNames, segment, acc) ==
  LET Other(p) == ~IsSelf(selfNames, p)
  IN SegmentOthers(acc, segment, SelectSeq(segment.participants, Other))

\* syncWhatsAppChat(parsed, {selfName}) is called; syncContacts and
\* syncMessages are on, as by default and as the upload route sets them
StartImport(s, messages, selfName) ==
  /\ Free(s)
  /\ Put(s, [kind |-> "import", pc |-> "contacts",
             body |-> [parsed |-> ParsedChat(messages), selfName |-> selfName],
             loc |-> [selfNames |-> SelfNames(selfName), personMap |-> <<>>,
                      segments |-> <<>>, k |-> 0],
             pre |-> db, preview |-> NULL, resp |-> NoResult, prev |-> NoPrev])
  /\ UNCHANGED db

\* lines 168-190: the contacts, then the chat grouped by day
ImportContacts(s) ==
  /\ reqs[s].pc = "contacts"
  /\ LET acc == ContactsLoop(reqs[s].body.parsed.participants, reqs[s].loc.selfNames, 1,
                             [db |-> db, personMap |-> <<>>, result |-> NoResult])
         segments == groupByDay(reqs[s].body.parsed)
     IN /\ db' = acc.db
        /\ Put(s, [reqs[s] EXCEPT
                     !.pc = IF segments = <<>> THEN "done" ELSE "segments",
                     !.loc.personMap = acc.personMap,
                     !.loc.segments = segments,
                     !.loc.k = 1,
                     !.resp = IF segments = <<>> THEN [acc.result EXCEPT !.status = 200]
                              ELSE acc.result])

\* lines 192-261: the next segment, and the result after the last one
ImportSegment(s) ==
  /\ reqs[s].pc = "segments"
  /\ LET loc == reqs[s].loc
         acc == SyncSegment(loc.selfNames, loc.segments[loc.k],
                            [db |-> db, personMap |-> loc.personMap, result |-> reqs[s].resp])
         last == loc.k = Len(loc.segments)
     IN /\ db' = acc.db
        /\ Put(s, [reqs[s] EXCEPT
                     !.pc = IF last THEN "done" ELSE "segments",
                     !.loc.personMap = acc.personMap,
                     !.loc.k = loc.k + 1,
                     !.resp = IF last THEN [acc.result EXCEPT !.status = 200]
                              ELSE acc.result])

(***************************************************************************)
(* One import of a chat of up to MaxMessages messages over a roster of     *)
(* people entered by hand, with or without the owner's name given.         *)
(***************************************************************************)
YOU == <<"Y","O","U">>
Du == <<"D","u">>
Owner == <<"M","a","x">>
OWNER == <<"M","A","X">>
Eli == <<"E","l","i">>
EliB == <<"E","l","i"," ","B">>

ImportSeedNames == {Owner, EliB}
ImportSenders == {YOU, Du, OWNER, Eli}
ImportMessages == {[sender |-> n, day |-> Days[i]] : n \in ImportSenders, i \in DOMAIN Days}

InitImport ==
  /\ \E names \in SeqsUpTo(ImportSeedNames, MaxSeedPeople) :
       db = [EmptyDb EXCEPT !.people = RosterOf(names), !.seq.people = Len(names)]
  /\ reqs = [s \in {1} |-> Idle]

ImportArrives ==
  \E s \in DOMAIN reqs, messages \in SeqsUpTo(ImportMessages, MaxMessages),
     selfName \in {NoName, Owner} :
    /\ reqs[s].pc = "idle"
    /\ StartImport(s, messages, selfName)

ContactsSynced == \E s \in DOMAIN reqs : ImportContacts(s)

SegmentSynced == \E s \in DOMAIN reqs : ImportSegment(s)

NextImport ==
  \/ ImportArrives
  \/ ContactsSynced
  \/ SegmentSynced

SpecImport == InitImport /\ [][NextImport]_vars

(***************************************************************************)
(* The same chat imported twice, one run after the other, with the same    *)
(* options, over a roster of people entered by hand.                       *)
(***************************************************************************)
EliBC == <<"E","l","i"," ","B"," ","C">>
BEli == <<"B"," ","E","l","i">>

ReimportSeedNames == {Owner, EliBC}
ReimportSenders == {Du, EliB, BEli}
ReimportMessages ==
  {[sender |-> n, day |-> Days[i]] : n \in ReimportSenders, i \in DOMAIN Days}

InitReimport ==
  /\ \E names \in SeqsUpTo(ReimportSeedNames, MaxSeedPeople) :
       db = [EmptyDb EXCEPT !.people = RosterOf(names), !.seq.people = Len(names)]
  /\ reqs = [s \in {1} |-> Idle]

FirstImportArrives ==
  \E s \in DOMAIN reqs, messages \in SeqsUpTo(ReimportMessages, MaxMessages),
     selfName \in {NoName, Owner} :
    /\ reqs[s].pc = "idle"
    /\ StartImport(s, messages, selfName)

\* syncWhatsAppChat is called again with the parsed chat and the options of
\* the run that has ended
SecondImportArrives ==
  \E s \in DOMAIN reqs :
    /\ reqs[s].kind = "import"
    /\ reqs[s].pc = "done"
    /\ reqs[s].prev = NoPrev
    /\ Put(s, [kind |-> "import", pc |-> "contacts", body |-> reqs[s].body,
               loc |-> [selfNames |-> SelfNames(reqs[s].body.selfName),
                        personMap |-> <<>>, segments |-> <<>>, k |-> 0],
               pre |-> db, preview |-> NULL, resp |-> NoResult,
               prev |-> [kind |-> "import", text |-> "",
                         status |-> reqs[s].resp.status, pre |-> reqs[s].pre]])
    /\ UNCHANGED db

NextReimport ==
  \/ FirstImportArrives
  \/ SecondImportArrives
  \/ ContactsSynced
  \/ SegmentSynced

SpecReimport == InitReimport /\ [][NextReimport]_vars

(***************************************************************************)
(* nameMatchScore alone, over pairs of names.                              *)
(***************************************************************************)
SarahChen == <<"S","a","r","a","h"," ","C","h","e","n">>
SaraChen == <<"S","a","r","a"," ","C","h","e","n">>

ScoreNames ==
  {<<"A","l"," ","B","o">>, <<"a","l"," ","b","o">>, <<" ","A","l"," ","B","o"," ">>,
   <<"A","l">>, <<"A","l"," ","C","y">>, <<"B","o"," ","A","l">>,
   <<"A","l"," ","A","l"," ","B","o">>, <<"A","l"," ","C","y"," ","D","i">>,
   <<"C","y">>, <<>>, <<"A","l"," "," ","B","o">>, SarahChen, SaraChen}

InitScore ==
  /\ db = [EmptyDb EXCEPT !.settings = OfflineSettings]
  /\ reqs = [s \in {1} |-> Idle]

Scored ==
  \E s \in DOMAIN reqs, a \in ScoreNames, b \in ScoreNames :
    /\ Put(s, [kind |-> "score", pc |-> "done", body |-> [a |-> a, b |-> b],
               loc |-> NULL, pre |-> db, preview |-> NULL,
               resp |-> [status |-> 200, score |-> nameMatchScore(a, b)],
               prev |-> NoPrev])
    /\ UNCHANGED db

NextScore == Scored

SpecScore == InitScore /\ [][NextScore]_vars

(***************************************************************************)
(* findOrCreatePerson alone, one call after another, over a roster of      *)
(* people entered by hand.                                                 *)
(***************************************************************************)
TypoSeedNames == {SarahChen, Ann}
TypoNames == {SaraChen, SarahChen, Anna, Bob}

InitTypo ==
  /\ \E names \in SeqsUpTo(TypoSeedNames, MaxSeedPeople) :
       db = [EmptyDb EXCEPT !.people = RosterOf(names), !.seq.people = Len(names)]
  /\ reqs = [s \in {1} |-> Idle]

PersonResolved ==
  \E s \in DOMAIN reqs, name \in TypoNames :
    /\ db.seq.people < MaxTypoPeople
    /\ Serve(s, "findOrCreate", [name |-> name],
             [db |-> findOrCreatePerson(db, name).db,
              resp |-> [status |-> 200, id |-> findOrCreatePerson(db, name).id,
                        isNew |-> findOrCreatePerson(db, name).isNew]])

NextTypo == PersonResolved

SpecTypo == InitTypo /\ [][NextTypo]_vars

(***************************************************************************)
(* The two resolvers over a fixed roster, at any acceptance threshold: how *)
(* many names of a list resolve to a person of the roster.                 *)
(***************************************************************************)
Thresholds == {<<1, 10>>, AcceptThreshold, FuzzyThreshold, <<9, 10>>}
SweepRosterNames == {Abxyz, SarahChen, Abc}
SweepNameLists == {<<Abxy>>, <<SaraChen>>, <<Abxy, SaraChen>>, <<Xyz, Abxy, Abc>>}

\* process/route.ts lines 107-131: the names with a bestMatch
AcceptedByPreview(allPeople, names, threshold) ==
  Cardinality({k \in DOMAIN names : ~PersonMatchAt(allPeople, names[k], threshold).isNew})

\* whatsapp-sync.ts lines 63-99: the names found, exactly or by the fuzzy match
AcceptedByImport(allPeople, names, threshold) ==
  Cardinality({k \in DOMAIN names :
     \/ \E i \in DOMAIN allPeople : ToLowerCase(allPeople[i].name) = ToLowerCase(names[k])
     \/ FuzzyAccepts(FuzzyLoop(allPeople, names[k], 1,
                               [bestMatch |-> 0, bestScore |-> <<0, 1>>]), threshold)})

InitSweep ==
  /\ \E names \in SeqsUpTo(SweepRosterNames, MaxSweepRoster) :
       db = [EmptyDb EXCEPT !.people = RosterOf(names), !.seq.people = Len(names)]
  /\ reqs = [s \in 1 .. 2 |-> Idle]

Resolved ==
  \E s \in DOMAIN reqs, names \in SweepNameLists, threshold \in Thresholds :
    /\ reqs[s].pc = "idle"
    /\ \A r \in 1 .. (s - 1) : reqs[r].pc = "done"
    /\ Put(s, [kind |-> "resolve", pc |-> "done",
               body |-> [names |-> names, threshold |-> threshold], loc |-> NULL,
               pre |-> db, preview |-> NULL,
               resp |-> [status |-> 200,
                         preview |-> AcceptedByPreview(db.people, names, threshold),
                         import |-> AcceptedByImport(db.people, names, threshold)],
               prev |-> NoPrev])
    /\ UNCHANGED db

NextSweep == Resolved

SpecSweep == InitSweep /\ [][NextSweep]_vars

(***************************************************************************)
(* The offline extractor's names (FallbackProvider.extractAllPersonNames)  *)
(* on the prompt handlePreview builds around a note.  A text is the        *)
(* sequence of its characters.                                             *)
(***************************************************************************)
UpperSet == Range(UpperAlpha)
LowerSet == Range(LowerAlpha)
\* the classes \s and [a-z''-]
WhiteSpace == {" ", "\t", "\n", "\r"}
NameChars == LowerSet \cup {"'", "-"}

\* the alternatives of the five patterns, lines 136-140
Triggers ==
  {<<"w","i","t","h">>,
   <<"m","e","t">>,
   <<"s","a","w">>,
   <<"c","a","l","l","e","d">>,
   <<"e","m","a","i","l","e","d">>,
   <<"t","e","x","t","e","d">>,
   <<"m","e","s","s","a","g","e","d">>,
   <<"v","i","s","i","t","e","d">>,
   <<"c","o","n","t","a","c","t","e","d">>}
TrailingVerbs ==
  {<<"t","o","l","d">>,
   <<"s","a","i","d">>,
   <<"m","e","n","t","i","o","n","e","d">>,
   <<"s","h","o","w","e","d">>,
   <<"s","h","a","r","e","d">>,
   <<"o","f","f","e","r","e","d">>,
   <<"s","u","g","g","e","s","t","e","d">>,
   <<"i","n","t","r","o","d","u","c","e","d">>,
   <<"a","s","k","e","d">>,
   <<"e","x","p","l","a","i","n","e","d">>}
Occasions ==
  {<<"c","a","l","l">>,
   <<"m","e","e","t","i","n","g">>,
   <<"c","h","a","t">>,
   <<"c","o","n","v","e","r","s","a","t","i","o","n">>,
   <<"d","i","s","c","u","s","s","i","o","n">>,
   <<"l","u","n","c","h">>,
   <<"d","i","n","n","e","r">>,
   <<"c","o","f","f","e","e">>,
   <<"d","r","i","n","k","s">>}
Prepositions ==
  {<<"f","r","o","m">>,
   <<"a","t">>,
   <<"o","f">>}
SubjectVerbs ==
  {<<"a","n","d"," ","I">>,
   <<"i","s">>,
   <<"w","a","s">>,
   <<"h","a","s">>}
With == <<"w","i","t","h">>

\* lines 144-151
skipWords ==
  {<<"M","o","n","d","a","y">>,
   <<"T","u","e","s","d","a","y">>,
   <<"W","e","d","n","e","s","d","a","y">>,
   <<"T","h","u","r","s","d","a","y">>,
   <<"F","r","i","d","a","y">>,
   <<"S","a","t","u","r","d","a","y">>,
   <<"S","u","n","d","a","y">>,
   <<"J","a","n","u","a","r","y">>,
   <<"F","e","b","r","u","a","r","y">>,
   <<"M","a","r","c","h">>,
   <<"A","p","r","i","l">>,
   <<"M","a","y">>,
   <<"J","u","n","e">>,
   <<"J","u","l","y">>,
   <<"A","u","g","u","s","t">>,
   <<"S","e","p","t","e","m","b","e","r">>,
   <<"O","c","t","o","b","e","r">>,
   <<"N","o","v","e","m","b","e","r">>,
   <<"D","e","c","e","m","b","e","r">>,
   <<"T","o","d","a","y">>,
   <<"Y","e","s","t","e","r","d","a","y">>,
   <<"T","o","m","o","r","r","o","w">>,
   <<"Z","o","o","m">>,
   <<"G","o","o","g","l","e">>,
   <<"M","i","c","r","o","s","o","f","t">>,
   <<"A","p","p","l","e">>,
   <<"A","m","a","z","o","n">>,
   <<"T","h","e">>,
   <<"T","h","i","s">>,
   <<"T","h","a","t">>,
   <<"T","h","e","s","e">>,
   <<"T","h","o","s","e">>,
   <<"H","e","r","e">>,
   <<"T","h","e","r","e">>,
   <<"H","a","d">>,
   <<"G","o","t">>}

\* the last index of the longest run of characters of class from i on
\* (i - 1 when there is none)
RECURSIVE RunEnd(_, _, _)
RunEnd(text, i, class) ==
  IF i <= Len(text) /\ text[i] \in class THEN RunEnd(text, i + 1, class) ELSE i - 1

StartsWith(text, i, word) ==
  i + Len(word) - 1 <= Len(text) /\ SubSeq(text, i, i + Len(word) - 1) = word

\* (?:a|b|...) at i: the last index of the alternative found, 0 if none
AltEnd(text, i, words) ==
  IF \E w \in words : StartsWith(text, i, w)
  THEN i + Len(CHOOSE w \in words : StartsWith(text, i, w)) - 1
  ELSE 0

\* \s+ after index e: the last index of the run, 0 if e is 0 or no run
SpacesEnd(text, e) ==
  IF e # 0 /\ RunEnd(text, e + 1, WhiteSpace) > e
  THEN RunEnd(text, e + 1, WhiteSpace) ELSE 0

\* [A-Z] then one or more of class, at i: the last index, 0 if no match
WordEnd(text, i, class) ==
  IF i <= Len(text) /\ text[i] \in UpperSet /\ RunEnd(text, i + 1, class) > i
  THEN RunEnd(text, i + 1, class) ELSE 0

\* \s+[A-Z][a-z''-]+ after index e
NextWordEnd(text, e) ==
  IF SpacesEnd(text, e) # 0 THEN WordEnd(text, SpacesEnd(text, e) + 1, NameChars) ELSE 0

\* (?:\s+[A-Z][a-z''-]+){min,3} after index e, greedy, n words taken so far
RECURSIVE MoreWords(_, _, _)
MoreWords(text, e, n) ==
  IF n = 3 \/ NextWordEnd(text, e) = 0
  THEN [to |-> e, extra |-> n]
  ELSE MoreWords(text, NextWordEnd(text, e), n + 1)

AtLeast(more, min) == IF more.extra >= min THEN more.to ELSE 0

\* [A-Z][a-z]+(?:\s+[A-Z][a-z''-]+){min,3} at i: the last index, 0 if none
NameEnd(text, i, min) ==
  IF i = 0 \/ WordEnd(text, i, LowerSet) = 0 THEN 0
  ELSE AtLeast(MoreWords(text, WordEnd(text, i, LowerSet), 0), min)

NoMatch == [ok |-> FALSE, from |-> 0, to |-> 0, last |-> 0]

Matched(from, to, last) ==
  IF to = 0 \/ last = 0 THEN NoMatch
  ELSE [ok |-> TRUE, from |-> from, to |-> to, last |-> last]

\* ...\s+(name) once the words before it end at index e
LeadThenName(text, e) ==
  IF SpacesEnd(text, e) = 0 THEN NoMatch
  ELSE Matched(SpacesEnd(text, e) + 1, NameEnd(text, SpacesEnd(text, e) + 1, 0),
               NameEnd(text, SpacesEnd(text, e) + 1, 0))

\* ...\s+(?:a|b|...) once the words before it end at index e
AltAfterSpaces(text, e, words) ==
  IF SpacesEnd(text, e) = 0 THEN 0 ELSE AltEnd(text, SpacesEnd(text, e) + 1, words)

\* (name)\s+(?:a|b|...) with the name at i
NameThenWord(text, i, words) ==
  Matched(i, NameEnd(text, i, 1), AltAfterSpaces(text, NameEnd(text, i, 1), words))

\* the match of pattern p that starts at i
MatchAt(p, text, i) ==
  CASE p = 1 -> LeadThenName(text, AltEnd(text, i, Triggers))
    [] p = 2 -> NameThenWord(text, i, TrailingVerbs)
    [] p = 3 -> LeadThenName(text,
                  AltAfterSpaces(text, AltEnd(text, i, Occasions), {With}))
    [] p = 4 -> IF NameThenWord(text, i, Prepositions).ok
                   /\ SpacesEnd(text, NameThenWord(text, i, Prepositions).last) # 0
                THEN [NameThenWord(text, i, Prepositions) EXCEPT
                        !.last = SpacesEnd(text, @)]
                ELSE NoMatch
    [] p = 5 -> IF i = 1 /\ NameThenWord(text, i, SubjectVerbs).ok
                THEN NameThenWord(text, i, SubjectVerbs)
                ELSE IF text[i] = "." /\ SpacesEnd(text, i) # 0
                     THEN NameThenWord(text, SpacesEnd(text, i) + 1, SubjectVerbs)
                     ELSE NoMatch

MatchStarts(p, text) == {i \in 1 .. Len(text) : MatchAt(p, text, i).ok}

\* while ((match = pattern.exec(text)) !== null): match[1] of each match, the
\* search going on after the last index of the match before
RECURSIVE ExecLoop(_, _, _, _)
RECURSIVE ExecNext(_, _, _, _)
ExecLoop(p, text, starts, lastIndex) ==
  IF \A i \in starts : i <= lastIndex THEN <<>>
  ELSE ExecNext(p, text, starts,
                MatchAt(p, text, CHOOSE i \in starts :
                                   i > lastIndex /\ \A j \in starts : j > lastIndex => i <= j))

ExecNext(p, text, starts, match) ==
  <<SubSeq(text, match.from, match.to)>> \o ExecLoop(p, text, starts, match.last)

\* lines 153-161, the patterns in order: match[1] of every match.  A name
\* starts with a capital and ends with a letter, so trim() leaves it as it is.
AllMatches(text) ==
  ExecLoop(1, text, MatchStarts(1, text), 0) \o ExecLoop(2, text, MatchStarts(2, text), 0)
    \o ExecLoop(3, text, MatchStarts(3, text), 0) \o ExecLoop(4, text, MatchStarts(4, text), 0)
    \o ExecLoop(5, text, MatchStarts(5, text), 0)

\* name.split(" ")[0]
FirstName(name) ==
  IF \E j \in DOMAIN name : name[j] = " "
  THEN SubSeq(name, 1, (CHOOSE j \in DOMAIN name :
                          name[j] = " " /\ \A k \in 1 .. (j - 1) : name[k] # " ") - 1)
  ELSE name

\* line 158
Counted(name) == FirstName(name) \notin skipWords /\ Len(name) > 2

\* line 159: names is the table in insertion order
Vote(names, name) ==
  IF \E k \in DOMAIN names : names[k].name = name
  THEN [k \in DOMAIN names |->
          IF names[k].name = name THEN [names[k] EXCEPT !.votes = @ + 1] ELSE names[k]]
  ELSE Append(names, [name |-> name, votes |-> 1])

RECURSIVE Tally(_, _)
Tally(matches, n) ==
  IF n = 0 THEN <<>>
  ELSE IF Counted(matches[n]) THEN Vote(Tally(matches, n - 1), matches[n])
       ELSE Tally(matches, n - 1)

\* Object.entries(names).sort((a, b) => b[1] - a[1]): stable, descending
InsertByVotes(sorted, e) ==
  IF \E i \in DOMAIN sorted : e.votes > sorted[i].votes
  THEN Append(SubSeq(sorted, 1, (CHOOSE i \in DOMAIN sorted :
                                    /\ e.votes > sorted[i].votes
                                    /\ \A k \in 1 .. (i - 1) : e.votes <= sorted[k].votes) - 1),
              e)
       \o SubSeq(sorted, CHOOSE i \in DOMAIN sorted :
                           /\ e.votes > sorted[i].votes
                           /\ \A k \in 1 .. (i - 1) : e.votes <= sorted[k].votes,
                 Len(sorted))
  ELSE Append(sorted, e)

RECURSIVE SortByVotes(_)
SortByVotes(names) ==
  IF names = <<>> THEN <<>>
  ELSE InsertByVotes(SortByVotes(SubSeq(names, 1, Len(names) - 1)), names[Len(names)])

NamesOf(sorted) ==
  IF sorted = <<>> THEN <<UnknownPerson>> ELSE [k \in DOMAIN sorted |-> sorted[k].name]

\* lines 134-166
extractAllPersonNames(text) ==
  NamesOf(SortByVotes(Tally(AllMatches(text), Len(AllMatches(text)))))

\* process/route.ts lines 68-76: the prompt around the note
PromptHead ==
  <<"A","n","a","l","y","z","e"," ","t","h","i","s"," ","m","e","e","t","i",
    "n","g"," ","n","o","t","e"," ","a","n","d"," ","e","x","t","r","a","c",
    "t"," ","t","h","e"," ","f","o","l","l","o","w","i","n","g"," ","i","n",
    "f","o","r","m","a","t","i","o","n",".","\n","\n","M","e","e","t","i",
    "n","g"," ","n","o","t","e",":","\n">>
PromptTail ==
  <<"\n","\n","R","e","t","u","r","n"," ","a"," ","J","S","O","N"," ","o",
    "b","j","e","c","t"," ","w","i","t","h",":","\n","-"," ","\"","n","a",
    "m","e","s","\"",":"," ","a","n"," ","a","r","r","a","y"," ","o","f",
    " ","A","L","L"," ","p","e","r","s","o","n"," ","n","a","m","e","s"," ",
    "m","e","n","t","i","o","n","e","d"," ","(","n","o","t"," ","\"","I",
    "\""," ","o","r"," ","\"","m","e","\"",","," ","j","u","s","t"," ","o",
    "t","h","e","r"," ","p","e","o","p","l","e",")","."," ","I","n","c","l",
    "u","d","e"," ","e","v","e","r","y"," ","d","i","s","t","i","n","c","t",
    " ","p","e","r","s","o","n",".","\n","-"," ","\"","s","u","m","m","a",
    "r","y","\"",":"," ","a"," ","b","r","i","e","f"," ","1","-","2"," ",
    "s","e","n","t","e","n","c","e"," ","s","u","m","m","a","r","y"," ","o",
    "f"," ","t","h","e"," ","m","e","e","t","i","n","g","\n","-"," ","\"",
    "t","o","p","i","c","s","\"",":"," ","a","n"," ","a","r","r","a","y",
    " ","o","f"," ","3","-","8"," ","t","o","p","i","c"," ","k","e","y","w",
    "o","r","d","s","/","p","h","r","a","s","e","s"," ","d","i","s","c","u",
    "s","s","e","d">>
Prompt(text) == PromptHead \o text \o PromptTail

CoffeeNote ==
  <<"H","a","d"," ","c","o","f","f","e","e"," ","w","i","t","h"," ","S","a",
    "r","a","h"," ","C","h","e","n"," ","a","n","d"," ","D","a","v","i","d",
    " ","K","i","m",","," ","d","i","s","c","u","s","s","e","d"," ","A","I",
    " ","i","n","f","r","a","s","t","r","u","c","t","u","r","e",".">>
SaidNote ==
  <<"S","a","r","a","h"," ","C","h","e","n"," ","s","a","i","d"," ","h","i",
    ".">>
TodayNote ==
  <<"T","o","d","a","y","\n","S","a","r","a","h"," ","s","a","i","d"," ",
    "y","e","s",".">>
LunchNote ==
  <<"L","u","n","c","h"," ","w","i","t","h"," ","A","l",".">>
ZoomNote ==
  <<"Z","o","o","m"," ","c","a","l","l"," ","w","i","t","h"," ","D","a","v",
    "i","d"," ","K","i","m",".">>
QuietNote ==
  <<"N","o","t","h","i","n","g"," ","n","e","w",".">>
MondayNote ==
  <<"W","e"," ","s","a","w"," ","M","o","n","d","a","y"," ","M","o","r","n",
    "i","n","g"," ","l","i","v","e",".">>

DavidKim == <<"D","a","v","i","d"," ","K","i","m">>

Sentences == {CoffeeNote, SaidNote, TodayNote, LunchNote, ZoomNote, QuietNote, MondayNote}

\* the sentences of a note, a space between two
RECURSIVE Joined(_)
Joined(sentences) ==
  IF Len(sentences) = 0 THEN <<>>
  ELSE IF Len(sentences) = 1 THEN sentences[1]
       ELSE Head(sentences) \o <<" ">> \o Joined(Tail(sentences))

InitExtract ==
  /\ db = [EmptyDb EXCEPT !.settings = OfflineSettings]
  /\ reqs = [s \in {1} |-> Idle]

NamesExtracted ==
  \E s \in {t \in DOMAIN reqs : reqs[t].pc = "idle"} :
    \E sentences \in SeqsUpTo(Sentences, MaxSentences) :
    /\ Put(s, [kind |-> "extract", pc |-> "done", body |-> [text |-> Joined(sentences)],
               loc |-> NULL, pre |-> db, preview |-> NULL,
               resp |-> [status |-> 200,
                         names |-> extractAllPersonNames(Prompt(Joined(sentences)))],
               prev |-> NoPrev])
    /\ UNCHANGED db

NextExtract == NamesExtracted

SpecExtract == InitExtract /\ [][NextExtract]_vars

(***************************************************************************)
(* The settings page.  PUT /api/settings stores each entry of its body,    *)
(* in the order of the body, updating the row of a key that exists and     *)
(* inserting a row otherwise; a request that needs a language model or an  *)
(* embedder then asks getLLM and getEmbedder, which read the table.        *)
(***************************************************************************)
MaxSettingsEntries == 1

ProviderNames == {"", "fallback", "openai", "anthropic", "gemini", "google"}
ApiKeys == {"", "sk"}

\* The entries a settings form can send: a provider name for the two
\* provider keys, a key or nothing for the API key.
SettingsEntries ==
  {[key |-> k, value |-> v] : k \in {"llm_provider", "embedding_provider"},
                              v \in ProviderNames}
  \cup {[key |-> "llm_api_key", value |-> v] : v \in ApiKeys}

\* Bodies are JSON objects: no key occurs twice.
SettingsBodies ==
  {b \in SeqsUpTo(SettingsEntries, MaxSettingsEntries) :
     /\ Len(b) >= 1
     /\ \A i, j \in DOMAIN b : b[i].key = b[j].key => i = j}

\* One turn of the loop of PUT: update the row of the key, or insert one
StoreSetting(d, entry) ==
  LET rows == {i \in DOMAIN d.settings : d.settings[i].key = entry.key}
  IN IF rows # {}
     THEN [d EXCEPT !.settings =
             [i \in DOMAIN d.settings |->
                IF i \in rows THEN [d.settings[i] EXCEPT !.value = entry.value]
                ELSE d.settings[i]]]
     ELSE [d EXCEPT !.settings = Append(@, entry)]

RECURSIVE StoreSettings(_, _)
StoreSettings(d, body) ==
  IF body = <<>> THEN d
  ELSE StoreSettings(StoreSetting(d, Head(body)), Tail(body))

\* PUT /api/settings
SettingsPUT(d, body) ==
  LET d1 == StoreSettings(d, body)
  IN [db |-> d1, resp |-> [status |-> 200, settings |-> d1.settings]]

\* What a request that processes a note or a query is handed
ResolveProviders(d) ==
  [db |-> d,
   resp |-> [status |-> 200, llm |-> getLLM(d), embedder |-> getEmbedder(d)]]

InitSettings ==
  /\ db = [EmptyDb EXCEPT !.settings = OfflineSettings]
  /\ reqs = [s \in {1} |-> Idle]

SettingsSaved ==
  \E s \in DOMAIN reqs, body \in SettingsBodies :
    Serve(s, "settings", body, SettingsPUT(db, body))

ProvidersResolved ==
  \E s \in DOMAIN reqs : Serve(s, "providers", NULL, ResolveProviders(db))

NextSettings ==
  \/ SettingsSaved
  \/ ProvidersResolved

SpecSettings == InitSettings /\ [][NextSettings]_vars

(***************************************************************************)
(* Structured output.  The remote providers ask the model for JSON and     *)
(* hand its text to parseJSON.  Texts are sequences of characters; the     *)
(* parsed value is represented by the text JSON.parse accepted, without    *)
(* its insignificant white space.                                          *)
(***************************************************************************)
MaxPieces == 3

\* U+0060, the character of a markdown fence, has no place in a string of
\* this language: the model writes it as the token "backtick".
Backtick == "backtick"

Fence == <<Backtick, Backtick, Backtick>>
JsonWord == <<"j", "s", "o", "n">>

\* the first replace of parseJSON: every fence with the word json and the
\* white space that follow it is removed, scanning from i
RECURSIVE RemoveOpeningFences(_, _)
RemoveOpeningFences(text, i) ==
  IF i > Len(text) THEN <<>>
  ELSE IF StartsWith(text, i, Fence)
       THEN RemoveOpeningFences(text,
              RunEnd(text, IF StartsWith(text, i + 3, JsonWord) THEN i + 7 ELSE i + 3,
                     WhiteSpace) + 1)
       ELSE <<text[i]>> \o RemoveOpeningFences(text, i + 1)

\* the second replace: every remaining fence is removed, scanning from i
RECURSIVE RemoveFences(_, _)
RemoveFences(text, i) ==
  IF i > Len(text) THEN <<>>
  ELSE IF StartsWith(text, i, Fence) THEN RemoveFences(text, i + 3)
       ELSE <<text[i]>> \o RemoveFences(text, i + 1)

\* .trim()
Trimmed(text) ==
  LET keep == {i \in DOMAIN text : text[i] \notin WhiteSpace}
  IN IF keep = {} THEN <<>>
     ELSE SubSeq(text, CHOOSE i \in keep : \A j \in keep : i <= j,
                       CHOOSE i \in keep : \A j \in keep : j <= i)

Cleaned(text) == Trimmed(RemoveFences(RemoveOpeningFences(text, 1), 1))

\* JSON.parse: the grammar of ECMA-404.  Each ...End operator is given the
\* index where a construct starts and yields the index of its last
\* character, 0 when the construct is not there.
JsonSpace == {" ", "\t", "\n", "\r"}
Digit == {"0", "1", "2", "3", "4", "5", "6", "7", "8", "9"}
Hex == Digit \cup {"a", "b", "c", "d", "e", "f", "A", "B", "C", "D", "E", "F"}
Escapes == {"\"", "\\", "/", "b", "f", "n", "r", "t"}
ControlChars == {"\t", "\n", "\r"}
Literals == {<<"t","r","u","e">>, <<"f","a","l","s","e">>, <<"n","u","l","l">>}

At(text, i) == IF i \in DOMAIN text THEN text[i] ELSE ""

Skip(text, i) == RunEnd(text, i, JsonSpace) + 1

\* i is the index after the opening quote; yields the closing quote
RECURSIVE StringEnd(_, _)
StringEnd(text, i) ==
  IF i > Len(text) THEN 0
  ELSE IF text[i] = "\"" THEN i
  ELSE IF text[i] = "\\"
       THEN IF At(text, i + 1) \in Escapes THEN StringEnd(text, i + 2)
            ELSE IF At(text, i + 1) = "u" /\ \A k \in (i + 2)..(i + 5) : At(text, k) \in Hex
                 THEN StringEnd(text, i + 6)
                 ELSE 0
  ELSE IF text[i] \in ControlChars THEN 0
  ELSE StringEnd(text, i + 1)

\* the digits of a fraction or an exponent, from i: at least one
DigitsEnd(text, i) == IF At(text, i) \in Digit THEN RunEnd(text, i, Digit) ELSE 0

ExponentEnd(text, e) ==
  IF e = 0 THEN 0
  ELSE IF At(text, e + 1) \in {"e", "E"}
       THEN DigitsEnd(text, IF At(text, e + 2) \in {"+", "-"} THEN e + 3 ELSE e + 2)
       ELSE e

FractionEnd(text, e) ==
  IF e = 0 THEN 0
  ELSE IF At(text, e + 1) = "." THEN DigitsEnd(text, e + 2) ELSE e

IntegerEnd(text, i) ==
  IF At(text, i) = "0" THEN i
  ELSE IF At(text, i) \in Digit THEN RunEnd(text, i, Digit) ELSE 0

NumberEnd(text, i) ==
  ExponentEnd(text, FractionEnd(text,
    IntegerEnd(text, IF At(text, i) = "-" THEN i + 1 ELSE i)))

LiteralEnd(text, i) ==
  IF \E w \in Literals : StartsWith(text, i, w)
  THEN i + Len(CHOOSE w \in Literals : StartsWith(text, i, w)) - 1
  ELSE 0

RECURSIVE ValueEnd(_, _)
RECURSIVE ElementsEnd(_, _)
RECURSIVE MembersEnd(_, _)

\* after an element that ends at e: a comma and more, or the bracket
ElementsNext(text, k) ==
  IF At(text, k) = "," THEN ElementsEnd(text, Skip(text, k + 1))
  ELSE IF At(text, k) = "]" THEN k ELSE 0

ElementsRest(text, e) == IF e = 0 THEN 0 ELSE ElementsNext(text, Skip(text, e + 1))

ElementsEnd(text, i) == ElementsRest(text, ValueEnd(text, i))

MembersNext(text, k) ==
  IF At(text, k) = "," THEN MembersEnd(text, Skip(text, k + 1))
  ELSE IF At(text, k) = "}" THEN k ELSE 0

MembersRest(text, e) == IF e = 0 THEN 0 ELSE MembersNext(text, Skip(text, e + 1))

\* after the key, at k: the colon and the value
MemberValue(text, k) ==
  IF At(text, k) = ":" THEN MembersRest(text, ValueEnd(text, Skip(text, k + 1))) ELSE 0

MemberKey(text, q) == IF q = 0 THEN 0 ELSE MemberValue(text, Skip(text, q + 1))

MembersEnd(text, i) ==
  IF At(text, i) = "\"" THEN MemberKey(text, StringEnd(text, i + 1)) ELSE 0

EmptyOrElements(text, j) == IF At(text, j) = "]" THEN j ELSE ElementsEnd(text, j)

EmptyOrMembers(text, j) == IF At(text, j) = "}" THEN j ELSE MembersEnd(text, j)

ValueEnd(text, i) ==
  CASE At(text, i) = "\"" -> StringEnd(text, i + 1)
    [] At(text, i) = "[" -> EmptyOrElements(text, Skip(text, i + 1))
    [] At(text, i) = "{" -> EmptyOrMembers(text, Skip(text, i + 1))
    [] At(text, i) \in Digit \cup {"-"} -> NumberEnd(text, i)
    [] OTHER -> LiteralEnd(text, i)

EndsText(text, e) == e # 0 /\ Skip(text, e + 1) = Len(text) + 1

\* JSON.parse(text) does not throw
JSONValid(text) == EndsText(text, ValueEnd(text, Skip(text, 1)))

\* the value of a valid text: the text without white space outside strings
RECURSIVE Canon(_, _, _)
Canon(text, i, inString) ==
  IF i > Len(text) THEN <<>>
  ELSE IF inString /\ text[i] = "\\"
       THEN <<text[i], At(text, i + 1)>> \o Canon(text, i + 2, TRUE)
  ELSE IF text[i] = "\"" THEN <<text[i]>> \o Canon(text, i + 1, ~inString)
  ELSE IF ~inString /\ text[i] \in JsonSpace THEN Canon(text, i + 1, FALSE)
  ELSE <<text[i]>> \o Canon(text, i + 1, inString)

JSONValue(text) == Canon(text, 1, FALSE)

\* the last index of ch in text, 0 if none
LastIndexOf(text, ch) ==
  LET at == {j \in DOMAIN text : text[j] = ch}
  IN IF at = {} THEN 0 ELSE CHOOSE j \in at : \A k \in at : k <= j

\* cleaned.match(/(\{[\s\S]*\}|\[[\s\S]*\])/) tried from i on: match[1], or
\* the empty text when there is no match
RECURSIVE Bracketed(_, _)
Bracketed(text, i) ==
  IF i > Len(text) THEN <<>>
  ELSE IF text[i] = "{" /\ LastIndexOf(text, "}") > i
       THEN SubSeq(text, i, LastIndexOf(text, "}"))
  ELSE IF text[i] = "[" /\ LastIndexOf(text, "]") > i
       THEN SubSeq(text, i, LastIndexOf(text, "]"))
  ELSE Bracketed(text, i + 1)

\* what parseJSON gives its caller; parses counts the calls of JSON.parse
Returned(text, parses) ==
  [ok |-> TRUE, value |-> JSONValue(text), error |-> "", parses |-> parses]

Thrown(error, parses) ==
  [ok |-> FALSE, value |-> <<>>, error |-> error, parses |-> parses]

\* the catch branch of parseJSON
ParseMatch(match) ==
  IF match = <<>> THEN Thrown("Could not parse JSON from response", 1)
  ELSE IF JSONValid(match) THEN Returned(match, 2)
       ELSE Thrown("SyntaxError", 2)

\* parseJSON that gives up when the cleaned text does not parse
ParseCleanedOnce(cleaned) ==
  IF JSONValid(cleaned) THEN Returned(cleaned, 1)
  ELSE Thrown("Could not parse JSON from response", 1)

ParseCleaned(cleaned) ==
  IF JSONValid(cleaned) THEN Returned(cleaned, 1)
  ELSE ParseMatch(Bracketed(cleaned, 1))

parseJSON(text) == ParseCleaned(Cleaned(text))

\* What a model answers: pieces of JSON, of fences and of prose, in a row.
FenceJsonPiece == <<Backtick, Backtick, Backtick, "j", "s", "o", "n", "\n">>
FencePiece == <<Backtick, Backtick, Backtick>>
ObjectPiece == <<"{", "\"", "a", "\"", ":", "1", "}">>
ArrayPiece == <<"[", "1", "]">>
OpenBrace == <<"{">>
CloseBrace == <<"}">>
OpenBracket == <<"[">>
CloseBracket == <<"]">>
ProsePiece == <<"o", "k", " ">>
NumberPiece == <<"1">>
MemberHead == <<"{", "\"", "a", "\"", ":">>
CommaPiece == <<",">>

Pieces ==
  {FenceJsonPiece,
   FencePiece,
   ObjectPiece,
   ArrayPiece,
   OpenBrace,
   CloseBrace,
   OpenBracket,
   CloseBracket,
   ProsePiece,
   NumberPiece,
   MemberHead,
   CommaPiece}

RECURSIVE Flattened(_)
Flattened(pieces) ==
  IF pieces = <<>> THEN <<>> ELSE Head(pieces) \o Flattened(Tail(pieces))

InitParse ==
  /\ db = [EmptyDb EXCEPT !.settings = OpenAISettings]
  /\ reqs = [s \in {1} |-> Idle]

\* extractJSON of a remote provider, from the answer of the model on
JSONExtracted ==
  \E s \in {t \in DOMAIN reqs : reqs[t].pc = "idle"} :
    \E pieces \in SeqsUpTo(Pieces, MaxPieces) :
    /\ Put(s, [kind |-> "parse", pc |-> "done", body |-> [text |-> Flattened(pieces)],
               loc |-> NULL, pre |-> db, preview |-> NULL,
               resp |-> parseJSON(Flattened(pieces)), prev |-> NoPrev])
    /\ UNCHANGED db

NextParse == JSONExtracted

SpecParse == InitParse /\ [][NextParse]_vars

(***************************************************************************)
(* The offline embedding.  generateLocalEmbedding hashes every distinct    *)
(* word of the text to three of the 384 dimensions, and the bigram the     *)
(* word starts to a fourth, adding the word's share of the text.  Hashes   *)
(* are 32-bit integers, held as <<high, low>> halves of 16 bits.  The     *)
(* model keeps the sums exactly, as numerators over den = 2 * the number   *)
(* of words, and whether the vector is then divided by its length; the     *)
(* floating-point vector is these sums rounded by IEEE 754 operations in   *)
(* an order the text fixes.                                                *)
(***************************************************************************)
MaxEmbedWords == 2
MaxEmbedPeople == 1

EMBEDDING_DIMS == 384

STOP_WORDS ==
  {<<"a">>, <<"a","n">>, <<"t","h","e">>, <<"a","n","d">>, <<"o","r">>,
   <<"b","u","t">>, <<"i","n">>, <<"o","n">>, <<"a","t">>, <<"t","o">>,
   <<"f","o","r">>, <<"o","f">>, <<"w","i","t","h">>, <<"b","y">>,
   <<"f","r","o","m">>, <<"i","s">>, <<"w","a","s">>, <<"a","r","e">>,
   <<"w","e","r","e">>, <<"b","e">>, <<"b","e","e","n">>,
   <<"b","e","i","n","g">>, <<"h","a","v","e">>, <<"h","a","s">>,
   <<"h","a","d">>, <<"d","o">>, <<"d","o","e","s">>, <<"d","i","d">>,
   <<"w","i","l","l">>, <<"w","o","u","l","d">>, <<"c","o","u","l","d">>,
   <<"s","h","o","u","l","d">>, <<"m","a","y">>, <<"m","i","g","h","t">>,
   <<"s","h","a","l","l">>, <<"c","a","n">>, <<"n","e","e","d">>,
   <<"d","a","r","e">>, <<"o","u","g","h","t">>, <<"u","s","e","d">>,
   <<"i">>, <<"m","e">>, <<"m","y">>, <<"w","e">>, <<"o","u","r">>,
   <<"y","o","u">>, <<"y","o","u","r">>, <<"h","e">>, <<"h","i","m">>,
   <<"h","i","s">>, <<"s","h","e">>, <<"h","e","r">>, <<"i","t">>,
   <<"i","t","s">>, <<"t","h","e","y">>, <<"t","h","e","m">>,
   <<"t","h","e","i","r">>, <<"w","h","a","t">>, <<"w","h","i","c","h">>,
   <<"w","h","o">>, <<"w","h","o","m">>, <<"t","h","i","s">>,
   <<"t","h","a","t">>, <<"t","h","e","s","e">>, <<"t","h","o","s","e">>,
   <<"a","m">>, <<"a","b","o","u","t">>, <<"a","b","o","v","e">>,
   <<"a","f","t","e","r">>, <<"a","g","a","i","n">>,
   <<"a","g","a","i","n","s","t">>, <<"a","l","l">>, <<"a","n","y">>,
   <<"b","e","c","a","u","s","e">>, <<"b","e","f","o","r","e">>,
   <<"b","e","l","o","w">>, <<"b","e","t","w","e","e","n">>,
   <<"b","o","t","h">>, <<"d","u","r","i","n","g">>, <<"e","a","c","h">>,
   <<"f","e","w">>, <<"f","u","r","t","h","e","r">>, <<"h","e","r","e">>,
   <<"h","o","w">>, <<"i","n","t","o">>, <<"j","u","s","t">>,
   <<"m","o","r","e">>, <<"m","o","s","t">>, <<"n","o">>, <<"n","o","r">>,
   <<"n","o","t">>, <<"o","n","l","y">>, <<"o","t","h","e","r">>,
   <<"o","u","t">>, <<"o","v","e","r">>, <<"o","w","n">>,
   <<"s","a","m","e">>, <<"s","o">>, <<"s","o","m","e">>,
   <<"s","u","c","h">>, <<"t","h","a","n">>, <<"t","h","e","n">>,
   <<"t","h","e","r","e">>, <<"t","h","r","o","u","g","h">>,
   <<"t","o","o">>, <<"u","n","d","e","r">>, <<"u","n","t","i","l">>,
   <<"u","p">>, <<"v","e","r","y">>, <<"s">>, <<"t">>, <<"d","o","n">>,
   <<"l","l">>, <<"v","e">>, <<"r","e">>, <<"d">>, <<"m">>, <<"o">>,
   <<"a","i","n">>, <<"a","r","e","n">>, <<"c","o","u","l","d","n">>,
   <<"d","i","d","n">>, <<"d","o","e","s","n">>, <<"h","a","d","n">>,
   <<"h","a","s","n">>, <<"h","a","v","e","n">>, <<"i","s","n">>,
   <<"m","a">>, <<"m","i","g","h","t","n">>, <<"m","u","s","t","n">>,
   <<"n","e","e","d","n">>, <<"s","h","a","n">>,
   <<"s","h","o","u","l","d","n">>, <<"w","a","s","n">>,
   <<"w","e","r","e","n">>, <<"w","o","n">>, <<"w","o","u","l","d","n">>}

DigitChars == <<"0", "1", "2", "3", "4", "5", "6", "7", "8", "9">>

\* the characters that .replace(/[^a-z0-9\s'-]/g, " ") keeps
TokenChars == LowerSet \cup Digit \cup {"'", "-"} \cup WhiteSpace

Spaced(text) ==
  [i \in DOMAIN text |-> IF text[i] \in TokenChars THEN text[i] ELSE " "]

\* the first index from i on that holds a character of class (0: none)
NextOf(s, i, class) ==
  IF \E j \in i .. Len(s) : s[j] \in class
  THEN CHOOSE j \in i .. Len(s) :
         s[j] \in class /\ \A k \in i .. (j - 1) : s[k] \notin class
  ELSE 0

\* String.prototype.split: the pieces of s from i on that lie between the
\* characters of class (between the runs of them when runs is set), the
\* empty pieces too
RECURSIVE SplitOn(_, _, _, _)
SplitOn(s, i, class, runs) ==
  IF NextOf(s, i, class) = 0 THEN <<SubSeq(s, i, Len(s))>>
  ELSE <<SubSeq(s, i, NextOf(s, i, class) - 1)>>
       \o SplitOn(s, (IF runs THEN RunEnd(s, NextOf(s, i, class), class)
                              ELSE NextOf(s, i, class)) + 1,
                  class, runs)

KeepWord(w) == Len(w) > 1 /\ w \notin STOP_WORDS

tokenize(text) ==
  SelectSeq(SplitOn(Spaced(ToLowerCase(text)), 1, WhiteSpace, TRUE), KeepWord)

\* charCodeAt, for the characters of a token and the "_" of a bigram
charCodeAt(c) ==
  CASE c = "'" -> 39
    [] c = "-" -> 45
    [] c = "_" -> 95
    [] c \in Digit -> 47 + (CHOOSE i \in DOMAIN DigitChars : DigitChars[i] = c)
    [] OTHER -> 96 + (CHOOSE i \in DOMAIN LowerAlpha : LowerAlpha[i] = c)

\* h * 2654435761 as a 32-bit integer, for h = 0, 1, 2
HashSeeds == <<<<0, 0>>, <<40503, 31153>>, <<15470, 62306>>>>

\* ((hash << 5) - hash + c) | 0, which is 31 * hash + c in 32 bits
Times31Plus(w, c) ==
  <<(31 * w[1] + (31 * w[2] + c) \div 65536) % 65536, (31 * w[2] + c) % 65536>>

\* lines 75-77, from character i on
RECURSIVE WordHash(_, _, _)
WordHash(word, i, hash) ==
  IF i > Len(word) THEN hash
  ELSE WordHash(word, i + 1, Times31Plus(hash, charCodeAt(word[i])))

\* Math.abs of a 32-bit integer in two's complement
Abs32(w) ==
  IF w[1] < 32768 THEN w
  ELSE IF w[2] = 0 THEN <<65536 - w[1], 0>>
       ELSE <<65535 - w[1], 65536 - w[2]>>

\* % EMBEDDING_DIMS of a non-negative <<high, low>>
ModDims(w) ==
  ((w[1] % EMBEDDING_DIMS) * (65536 % EMBEDDING_DIMS) + w[2]) % EMBEDDING_DIMS

\* ((hash >> 16) & 1) === 0 ? 1 : -1
Sign(w) == IF w[1] % 2 = 0 THEN 1 ELSE -1

\* a ^ b on naturals below 2^bits
RECURSIVE Xor(_, _, _)
Xor(a, b, bits) ==
  IF bits = 0 THEN 0
  ELSE ((a + b) % 2) + 2 * Xor(a \div 2, b \div 2, bits - 1)

\* Math.imul(bHash, 0x01000193), 0x01000193 being 256 * 65536 + 403
Imul(w) ==
  <<((w[2] * 403) \div 65536 + w[1] * 403 + w[2] * 256) % 65536,
    (w[2] * 403) % 65536>>

\* 0x811c9dc5
FnvOffset == <<33052, 40389>>

\* lines 89-92, from character i on
RECURSIVE BigramHash(_, _, _)
BigramHash(bigram, i, bHash) ==
  IF i > Len(bigram) THEN bHash
  ELSE BigramHash(bigram, i + 1,
         Imul(<<bHash[1], Xor(bHash[2], charCodeAt(bigram[i]), 16)>>))

\* embedding[idx] += amount / den
Add(embedding, idx, amount) == [embedding EXCEPT ![idx] = @ + amount]

\* lines 78-81: sign * tf, tf being count / words.length
AddHashed(embedding, hash, count) ==
  Add(embedding, ModDims(Abs32(hash)), Sign(hash) * 2 * count)

\* lines 73-82
AddHashes(embedding, word, count) ==
  AddHashed(AddHashed(AddHashed(embedding,
      WordHash(word, 1, HashSeeds[1]), count),
      WordHash(word, 1, HashSeeds[2]), count),
      WordHash(word, 1, HashSeeds[3]), count)

\* words.indexOf(word), counted from 1
IndexOf(words, word) ==
  CHOOSE i \in DOMAIN words : words[i] = word /\ \A j \in 1..(i - 1) : words[j] # word

\* lines 85-95: tf * 0.5 for the bigram the first occurrence starts
AddBigram(embedding, words, wordIdx, count) ==
  IF wordIdx < Len(words)
  THEN Add(embedding,
           ModDims(Abs32(BigramHash(words[wordIdx] \o <<"_">> \o words[wordIdx + 1],
                                    1, FnvOffset))),
           count)
  ELSE embedding

Count(words, word) == Cardinality({i \in DOMAIN words : words[i] = word})

\* one turn of the loop of lines 69-96
AddWord(embedding, words, word) ==
  AddBigram(AddHashes(embedding, word, Count(words, word)),
            words, IndexOf(words, word), Count(words, word))

\* the loop over the entries of freq; the sums do not depend on its order
RECURSIVE AddWords(_, _, _)
AddWords(embedding, words, entries) ==
  IF entries = <<>> THEN embedding
  ELSE AddWords(AddWord(embedding, words, Head(entries)), words, Tail(entries))

Zeroes == [i \in 0..(EMBEDDING_DIMS - 1) |-> 0]

\* lines 98-109: divided by the magnitude when that is positive
Normalized(den, sums) ==
  [den |-> den, sums |-> sums, unit |-> \E i \in DOMAIN sums : sums[i] # 0]

EmbeddingOf(words) ==
  IF words = <<>> THEN Normalized(0, Zeroes)
  ELSE Normalized(2 * Len(words), AddWords(Zeroes, words, Uniq(words)))

generateLocalEmbedding(text) == EmbeddingOf(tokenize(text))

\* an embed that weighs the text by the size of the stored corpus
embedByCorpus(d, text) ==
  [generateLocalEmbedding(text) EXCEPT !.den = @ * (1 + Len(d.people))]

\* FallbackProvider.embed, called while the tables are d
embed(d, text) == generateLocalEmbedding(text)

EmbedWords ==
  {<<"M","e","t">>, <<"S","a","r","a","h">>, <<"t","h","e">>,
   <<"A","I",",">>, <<"1","0">>}

InitEmbed ==
  /\ db = [EmptyDb EXCEPT !.settings = OfflineSettings]
  /\ reqs = [s \in 1..2 |-> Idle]

\* a call of embed with the next free slot watching
Embedded ==
  \E s \in {t \in DOMAIN reqs : reqs[t].pc = "idle"
                               /\ \A u \in 1..(t - 1) : reqs[u].pc = "done"} :
    \E words \in SeqsUpTo(EmbedWords, MaxEmbedWords) :
      /\ Put(s, [kind |-> "embed", pc |-> "done", body |-> [text |-> Joined(words)],
                 loc |-> NULL, pre |-> db, preview |-> NULL,
                 resp |-> [status |-> 200, embedding |-> embed(db, Joined(words))],
                 prev |-> NoPrev])
      /\ UNCHANGED db

\* POST /api/persons between two calls
EmbedPersonCreated ==
  \E body \in PostBodies :
    /\ db.seq.people < MaxEmbedPeople
    /\ db' = PersonsPOST(db, body).db
    /\ UNCHANGED reqs

NextEmbed ==
  \/ Embedded
  \/ EmbedPersonCreated

SpecEmbed == InitEmbed /\ [][NextEmbed]_vars

(***************************************************************************)
(* The length of the offline embedding.  One call of embed per behaviour,  *)
(* on texts of up to three words.                                          *)
(***************************************************************************)
MaxNormWords == 3

NormWords ==
  {<<"m","e","i">>, <<"k","e","k">>, <<"a","s","k","h">>,
   <<"t","h","e">>, <<"S","a","r","a","h">>}

InitNorm ==
  /\ db = [EmptyDb EXCEPT !.settings = OfflineSettings]
  /\ reqs = [s \in {1} |-> Idle]

EmbeddedOnce ==
  \E s \in {t \in DOMAIN reqs : reqs[t].pc = "idle"} :
    \E words \in SeqsUpTo(NormWords, MaxNormWords) :
      /\ Put(s, [kind |-> "embed", pc |-> "done", body |-> [text |-> Joined(words)],
                 loc |-> NULL, pre |-> db, preview |-> NULL,
                 resp |-> [status |-> 200, embedding |-> embed(db, Joined(words))],
                 prev |-> NoPrev])
      /\ UNCHANGED db

NextNorm == EmbeddedOnce

SpecNorm == InitNorm /\ [][NextNorm]_vars

(***************************************************************************)
(* Stored embeddings.  A component is a double: its sign, its exponent and *)
(* its 52 fraction bits, held as the 23 bits a float keeps (frac) and the  *)
(* 29 bits it does not (rest); zero has the flag zero.  The buffer is a    *)
(* sequence of bytes.  Components are zero or of magnitude between         *)
(* 2^-MaxExponentDrop and 2, the range of the components of a vector of    *)
(* length 1, where a float is normal.                                      *)
(***************************************************************************)
MaxVectorLen == 2
MaxExponentDrop == 1

FracBits == 8388608
RestBits == 536870912
HalfRest == 268435456

Double(neg, exp, frac, rest) ==
  [neg |-> neg, zero |-> FALSE, exp |-> exp, frac |-> frac, rest |-> rest]

Zero(neg) == [neg |-> neg, zero |-> TRUE, exp |-> 0, frac |-> 0, rest |-> 0]

\* Math.fround on a double in the normal range of a float: to the nearest
\* float, to the even one at a tie; the fraction may carry into the exponent
RoundsUp(v) == v.rest > HalfRest \/ (v.rest = HalfRest /\ v.frac % 2 = 1)

Fround(v) ==
  IF v.zero THEN v
  ELSE IF ~RoundsUp(v) THEN [v EXCEPT !.rest = 0]
  ELSE IF v.frac + 1 = FracBits THEN [v EXCEPT !.exp = @ + 1, !.frac = 0, !.rest = 0]
  ELSE [v EXCEPT !.frac = @ + 1, !.rest = 0]

\* the biased exponent field of a float
Biased(f) == IF f.zero THEN 0 ELSE f.exp + 127

\* the four bytes of a float, highest first
FloatBE(f) ==
  <<(IF f.neg THEN 128 ELSE 0) + Biased(f) \div 2,
    (Biased(f) % 2) * 128 + f.frac \div 65536,
    (f.frac \div 256) % 256,
    f.frac % 256>>

\* buffer.writeFloatLE(value, offset): the four bytes, lowest first
FloatLE(f) ==
  <<f.frac % 256,
    (f.frac \div 256) % 256,
    (Biased(f) % 2) * 128 + f.frac \div 65536,
    (IF f.neg THEN 128 ELSE 0) + Biased(f) \div 2>>

RECURSIVE WriteFloats(_, _)
WriteFloats(embedding, i) ==
  IF i > Len(embedding) THEN <<>>
  ELSE FloatLE(Fround(embedding[i])) \o WriteFloats(embedding, i + 1)

embeddingToBuffer(embedding) == WriteFloats(embedding, 1)

\* buffer.readFloatLE(i), i counted from 1, of a zero or a normal float
FloatOf(neg, biased, frac) ==
  IF biased = 0 /\ frac = 0 THEN Zero(neg) ELSE Double(neg, biased - 127, frac, 0)

ReadFloatLE(buffer, i) ==
  FloatOf(buffer[i + 3] >= 128,
          (buffer[i + 3] % 128) * 2 + buffer[i + 2] \div 128,
          (buffer[i + 2] % 128) * 65536 + buffer[i + 1] * 256 + buffer[i])

RECURSIVE ReadFloats(_, _)
ReadFloats(buffer, i) ==
  IF i > Len(buffer) THEN <<>>
  ELSE <<ReadFloatLE(buffer, i)>> \o ReadFloats(buffer, i + 4)

bufferToEmbedding(buffer) == ReadFloats(buffer, 1)

\* Components: fractions and rests at the edges of the rounding
Components ==
  {Zero(n) : n \in BOOLEAN}
  \cup {Double(n, e, f, r) : n \in BOOLEAN, e \in (0 - MaxExponentDrop)..0,
                            f \in {0, 1, FracBits - 1},
                            r \in {0, HalfRest - 1, HalfRest, HalfRest + 1}}

InitBuffer ==
  /\ db = [EmptyDb EXCEPT !.settings = OfflineSettings]
  /\ reqs = [s \in 1..2 |-> Idle]

\* a vector is encoded for its row
EmbeddingStored ==
  \E s \in {t \in {1} : reqs[t].pc = "idle"} :
    \E v \in SeqsUpTo(Components, MaxVectorLen) :
      /\ Put(s, [kind |-> "store", pc |-> "done", body |-> [embedding |-> v],
                 loc |-> NULL, pre |-> db, preview |-> NULL,
                 resp |-> [status |-> 200, buffer |-> embeddingToBuffer(v)],
                 prev |-> NoPrev])
      /\ UNCHANGED db

\* the stored buffer is decoded for a search
EmbeddingLoaded ==
  /\ reqs[1].pc = "done"
  /\ reqs[2].pc = "idle"
  /\ Put(2, [kind |-> "load", pc |-> "done", body |-> [buffer |-> reqs[1].resp.buffer],
             loc |-> NULL, pre |-> db, preview |-> NULL,
             resp |-> [status |-> 200,
                       embedding |-> bufferToEmbedding(reqs[1].resp.buffer)],
             prev |-> NoPrev])
  /\ UNCHANGED db

NextBuffer ==
  \/ EmbeddingStored
  \/ EmbeddingLoaded

SpecBuffer == InitBuffer /\ [][NextBuffer]_vars

(***************************************************************************)
(* The vector index of the people.  A person's row is written by confirm,  *)
(* by PUT /api/people/[id] and by POST /api/people/[id]/regenerate.        *)
(***************************************************************************)
MaxIndexMeetings == 2
MaxIndexPeople == 2
MaxIndexAssignments == 1

\* PUT /api/people/[id]: the fields of the body that are given are set
PeoplePUT(d, id, body) ==
  LET k == PersonIndex(d, id)
  IN IF k = 0
     THEN [db |-> d, resp |-> [status |-> 404]]
     ELSE [db |-> [d EXCEPT !.people[k].name = Coalesce(body, "name", @),
                            !.people[k].context = Coalesce(body, "context", @)],
           resp |-> [status |-> 200]]

\* the summaries of the meetings whose first person is personId
RECURSIVE MeetingContext(_, _, _)
MeetingContext(d, personId, n) ==
  IF n = 0 THEN <<>>
  ELSE IF d.meetings[n].personId = personId
       THEN Append(MeetingContext(d, personId, n - 1), d.meetings[n].summary)
       ELSE MeetingContext(d, personId, n - 1)

\* embeddingText of regenerate: the name and the meeting history (company,
\* role and tags are empty in the model)
EmbeddingText(d, person) ==
  [name |-> person.name, history |-> MeetingContext(d, person.id, Len(d.meetings))]

\* POST /api/people/[id]/regenerate; ok: embedder.embed returned
Regenerate(d, id, ok) ==
  LET k == PersonIndex(d, id)
  IN IF k = 0
     THEN [db |-> d, resp |-> [status |-> 404]]
     ELSE [db |-> IF ok
                  THEN [d EXCEPT !.people[k].embedding =
                                    Embed(EmbeddingText(d, d.people[k]))]
                  ELSE d,
           resp |-> [status |-> 200]]

IndexContexts == {<<>>, <<"s3">>}

InitIndex ==
  /\ db = [EmptyDb EXCEPT !.settings = OfflineSettings]
  /\ reqs = [s \in {1} |-> Idle]

IndexConfirmArrives ==
  /\ RoomForMeeting(MaxIndexMeetings)
  /\ \E s \in DOMAIN reqs,
        body \in ConfirmBodies(db, ConfirmTexts, ConfirmNames, MaxIndexAssignments) :
       /\ RoomForPeople(Creates(body.assignments), MaxIndexPeople)
       /\ StartConfirm(s, body)

ContextEdited ==
  \E s \in DOMAIN reqs, id \in 1 .. db.seq.people, context \in IndexContexts :
    Serve(s, "peoplePut", [id |-> id, context |-> context],
          PeoplePUT(db, id, [context |-> context]))

ProfileRegenerated ==
  \E s \in DOMAIN reqs, id \in 1 .. db.seq.people :
    \E ok \in EmbedOutcomes(getEmbedder(db)) :
      Serve(s, "regenerate", [id |-> id], Regenerate(db, id, ok))

NextIndex ==
  \/ IndexConfirmArrives
  \/ MeetingEmbedSettles
  \/ PersonEmbedSettles
  \/ ContextEdited
  \/ ProfileRegenerated

SpecIndex == InitIndex /\ [][NextIndex]_vars

(***************************************************************************)
(* The live WhatsApp sync.  A batch is the messages of one chat whose      *)
(* timer has fired; processBatch runs as an async function and every       *)
(* await of it is a point where another batch can run.  reqs[s] is batch   *)
(* s: body is its chat and messages, pc the await it is at, loc its        *)
(* locals.  A person row of the live sync carries its whatsappId; phones   *)
(* are not modelled (contact.number is absent).  All batches fall on one   *)
(* day.                                                                    *)
(***************************************************************************)
MaxBatches == 2

LiveChats == {"c1", "c2"}

\* contact.pushname of the chat's contact: two chats of one name
ChatName(chatId) == Ann

LiveToday == "2026-01-18"

LiveLoc == [name |-> NoName, personId |-> 0, meetingId |-> 0, raw |-> <<>>]

\* the rows a select ... limit(1) can return the first of
FirstIndex(rows) == IF rows = {} THEN 0 ELSE CHOOSE k \in rows : \A l \in rows : k <= l

\* lines 24-29
ByWaId(d, whatsappId) ==
  FirstIndex({k \in DOMAIN d.people : d.people[k].whatsappId = whatsappId})

\* line 33
ExactName(d, name) ==
  FirstIndex({k \in DOMAIN d.people :
                ToLowerCase(d.people[k].name) = ToLowerCase(name)})

\* lines 82-91: today's whatsapp-live meeting joined to the person
TodayMeeting(d, personId) ==
  FirstIndex({k \in DOMAIN d.meetings :
                /\ d.meetings[k].source = "whatsapp-live"
                /\ d.meetings[k].date = LiveToday
                /\ \E l \in DOMAIN d.meetingPeople :
                      /\ d.meetingPeople[l].meetingId = d.meetings[k].id
                      /\ d.meetingPeople[l].personId = personId})

MeetingIndex(d, meetingId) ==
  FirstIndex({k \in DOMAIN d.meetings : d.meetings[k].id = meetingId})

\* lines 62-70
InsertLivePerson(d, name, whatsappId) ==
  [d EXCEPT !.people =
     Append(@, [id |-> d.seq.people + 1, name |-> name,
                context |-> <<"Auto-synced from WhatsApp live">>,
                embedding |-> NoEmbedding, whatsappId |-> whatsappId]),
            !.seq.people = @ + 1]

\* One step of processBatch, from the await at r.pc to the next await:
\* the tables and the batch afterwards.
Goes(r, pc) == [r EXCEPT !.pc = pc]

processBatchStep(d, r) ==
  CASE r.pc = "getContact" ->
         [db |-> d, req |-> [r EXCEPT !.pc = "byWaId",
                                      !.loc.name = ChatName(r.body.chatId)]]
    [] r.pc = "byWaId" ->
         IF ByWaId(d, r.body.chatId) # 0
         THEN [db |-> d,
               req |-> [r EXCEPT !.pc = "existing",
                                 !.loc.personId = d.people[ByWaId(d, r.body.chatId)].id]]
         ELSE [db |-> d, req |-> Goes(r, "allPeople")]
    [] r.pc = "allPeople" ->
         IF ExactName(d, r.loc.name) # 0
         THEN [db |-> d,
               req |-> [r EXCEPT
                          !.pc = IF d.people[ExactName(d, r.loc.name)].whatsappId = ""
                                 THEN "setWaId" ELSE "existing",
                          !.loc.personId = d.people[ExactName(d, r.loc.name)].id]]
         ELSE [db |-> d, req |-> Goes(r, "insertPerson")]
    [] r.pc = "setWaId" ->
         [db |-> [d EXCEPT !.people =
                    [k \in DOMAIN @ |->
                       IF @[k].id = r.loc.personId
                       THEN [@[k] EXCEPT !.whatsappId = r.body.chatId] ELSE @[k]]],
          req |-> Goes(r, "existing")]
    [] r.pc = "insertPerson" ->
         [db |-> InsertLivePerson(d, r.loc.name, r.body.chatId),
          req |-> [r EXCEPT !.pc = "existing", !.loc.personId = d.seq.people + 1]]
    [] r.pc = "existing" ->
         IF TodayMeeting(d, r.loc.personId) # 0
         THEN [db |-> d,
               req |-> [r EXCEPT
                          !.pc = "readRaw",
                          !.loc.meetingId = d.meetings[TodayMeeting(d, r.loc.personId)].id]]
         ELSE [db |-> d, req |-> Goes(r, "insertMeeting")]
    [] r.pc = "insertMeeting" ->
         [db |-> InsertMeeting(d, r.loc.personId, <<>>, "", NoEmbedding,
                               "whatsapp-live", LiveToday),
          req |-> [r EXCEPT !.pc = "insertLink", !.loc.meetingId = d.seq.meetings + 1]]
    [] r.pc = "insertLink" ->
         [db |-> InsertMeetingPerson(d, r.loc.meetingId, r.loc.personId),
          req |-> Goes(r, "readRaw")]
    [] r.pc = "readRaw" ->
         [db |-> d,
          req |-> [r EXCEPT !.pc = "writeRaw",
                            !.loc.raw = d.meetings[MeetingIndex(d, r.loc.meetingId)].rawInput]]
    [] r.pc = "writeRaw" ->
         [db |-> [d EXCEPT !.meetings[MeetingIndex(d, r.loc.meetingId)].rawInput =
                             r.loc.raw \o r.body.messages],
          req |-> Goes(r, "summary")]
    [] r.pc = "summary" ->
         [db |-> [d EXCEPT !.meetings[MeetingIndex(d, r.loc.meetingId)].summary =
                             "live"],
          req |-> [r EXCEPT !.pc = "done", !.resp = [status |-> 200]]]

InitLive ==
  /\ db = [EmptyDb EXCEPT !.settings = OfflineSettings]
  /\ reqs = [s \in 1..MaxBatches |-> Idle]

\* the timer of a chat fires: its batch leaves pendingMessages and
\* processBatch starts; batch s carries message s
BatchStarts ==
  \E s \in DOMAIN reqs, chatId \in LiveChats :
    /\ reqs[s].pc = "idle"
    /\ Put(s, [kind |-> "batch", pc |-> "getContact",
               body |-> [chatId |-> chatId, messages |-> <<s>>],
               loc |-> LiveLoc, pre |-> db, preview |-> NULL, resp |-> NoResp,
               prev |-> NoPrev])
    /\ UNCHANGED db

\* an await of a running batch settles
BatchContinues ==
  \E s \in DOMAIN reqs :
    /\ reqs[s].kind = "batch"
    /\ reqs[s].pc # "done"
    /\ db' = processBatchStep(db, reqs[s]).db
    /\ Put(s, processBatchStep(db, reqs[s]).req)

NextLive ==
  \/ BatchStarts
  \/ BatchContinues

SpecLive == InitLive /\ [][NextLive]_vars

(***************************************************************************)
(* The debounce of the live sync.  handleMessage is called for each        *)
(* message of the client, in the order of the messages; message s is the   *)
(* s-th one.  In this specification db is the memory of the module:        *)
(* pendingMessages, a map from chat ids to the messages waiting and the    *)
(* time left on the chat's timer, and the batches handed to processBatch.  *)
(* Time passes in ticks of TickMs; age is the time since a message was     *)
(* handed to handleMessage, counted up to DEBOUNCE_MS.                     *)
(***************************************************************************)
MaxLiveMessages == 3
DEBOUNCE_MS == 5000
TickMs == 2500

DebounceChats == {"c1", "c2", "g1"}
isGroup(chatId) == chatId = "g1"

\* text messages of the three chats, a message without text, a status
LiveMessages ==
  {[chatId |-> c, body |-> "hi", isStatus |-> FALSE] : c \in DebounceChats}
  \cup {[chatId |-> "c1", body |-> "", isStatus |-> FALSE],
        [chatId |-> "c1", body |-> "hi", isStatus |-> TRUE]}

NotPending == [messages |-> <<>>, timer |-> 0]

\* pendingMessages.get(chatId) is defined
IsPending(pending, chatId) == pending[chatId].messages # <<>>

\* lines 178-179, up to the await of msg.getChat()
handleMessageBegin(msg) ==
  [kind |-> "message",
   pc |-> IF msg.body = "" \/ msg.isStatus THEN "done" ELSE "getChat",
   body |-> msg, loc |-> [age |-> 0], pre |-> NULL, preview |-> NULL,
   resp |-> NoResp, prev |-> NoPrev]

\* lines 188-210: the message joins the chat's entry and the timer starts
\* anew, or the entry is made
Debounced(pending, chatId, s) ==
  IF IsPending(pending, chatId)
  THEN [pending EXCEPT ![chatId] = [messages |-> Append(@.messages, s),
                                    timer |-> DEBOUNCE_MS]]
  ELSE [pending EXCEPT ![chatId] = [messages |-> <<s>>, timer |-> DEBOUNCE_MS]]

\* lines 181-210, after msg.getChat() has settled
handleMessageEnd(d, s, msg) ==
  IF isGroup(msg.chatId) THEN d
  ELSE [d EXCEPT !.pendingMessages = Debounced(@, msg.chatId, s)]

\* lines 193-199 and 203-209: the callback of the chat's timer
timerCallback(d, chatId) ==
  IF IsPending(d.pendingMessages, chatId)
  THEN [d EXCEPT !.pendingMessages[chatId] = NotPending,
                 !.batches = Append(@, [chatId |-> chatId,
                                        messages |-> d.pendingMessages[chatId].messages])]
  ELSE d

InitDebounce ==
  /\ db = [pendingMessages |-> [c \in DebounceChats |-> NotPending], batches |-> <<>>]
  /\ reqs = [s \in 1 .. MaxLiveMessages |-> Idle]

\* the client hands the next message to handleMessage
MessageArrives ==
  \E s \in {t \in DOMAIN reqs : /\ reqs[t].pc = "idle"
                                /\ \A u \in 1 .. (t - 1) : reqs[u].pc # "idle"},
     msg \in LiveMessages :
    /\ Put(s, handleMessageBegin(msg))
    /\ UNCHANGED db

\* await msg.getChat() settles
ChatSettles ==
  \E s \in {t \in DOMAIN reqs : reqs[t].pc = "getChat"} :
    /\ db' = handleMessageEnd(db, s, reqs[s].body)
    /\ Put(s, [reqs[s] EXCEPT !.pc = "done"])

\* a timer that has run down fires (a cleared timer never does)
TimerFires ==
  \E c \in {k \in DebounceChats : /\ IsPending(db.pendingMessages, k)
                                  /\ db.pendingMessages[k].timer = 0} :
    /\ db' = timerCallback(db, c)
    /\ UNCHANGED reqs

Ticked(d) ==
  [d EXCEPT !.pendingMessages =
     [c \in DebounceChats |->
        [@[c] EXCEPT !.timer = IF @ > TickMs THEN @ - TickMs ELSE 0]]]

Aged(r) ==
  IF r.pc = "idle" THEN r
  ELSE [r EXCEPT !.loc.age = IF @ + TickMs < DEBOUNCE_MS THEN @ + TickMs
                             ELSE DEBOUNCE_MS]

\* TickMs pass
Tick ==
  /\ db' = Ticked(db)
  /\ reqs' = [s \in DOMAIN reqs |-> Aged(reqs[s])]
  /\ (db' # db \/ reqs' # reqs)

NextDebounce ==
  \/ MessageArrives
  \/ ChatSettles
  \/ TimerFires
  \/ Tick

SpecDebounce == InitDebounce /\ [][NextDebounce]_vars

\* getChat settles, the event loop runs the timers that are due, and time
\* passes
SpecDebounceFair ==
  /\ SpecDebounce
  /\ WF_vars(ChatSettles)
  /\ WF_vars(TimerFires)
  /\ WF_vars(Tick)

(***************************************************************************)
(* The offline provider's summary and topics (FallbackProvider             *)
(* .extractSummary and .extractTopics), computed from the prompt that      *)
(* handlePreview hands to extractJSON.  Texts are sequences of             *)
(* characters; the notes hold no token made of digits only, so the         *)
(* entries of a frequency table come in the order of first occurrence.     *)
(***************************************************************************)
\* getMeetingText lines 230-234, in the order of the source
markers ==
  <<
    <<"m","e","e","t","i","n","g"," ","n","o","t","e",":">>,
    <<"m","e","e","t","i","n","g"," ","t","e","x","t",":">>,
    <<"m","e","e","t","i","n","g"," ","n","o","t","e","s",":">>,
    <<"n","o","t","e",":">>, <<"t","e","x","t",":">>,
    <<"i","n","p","u","t",":">>, <<"-","-","-">>,
    <<Backtick,Backtick,Backtick>>, <<"h","e","r","e"," ","i","s">>,
    <<"h","e","r","e","'","s"," ","t","h","e">>,
    <<"t","r","a","n","s","c","r","i","p","t",":">>,
    <<"c","o","n","t","e","n","t",":">>,
    <<"t","h","e"," ","f","o","l","l","o","w","i","n","g">>
  >>

PROMPT_WORDS ==
  {
    <<"e","x","t","r","a","c","t">>, <<"a","n","a","l","y","z","e">>,
    <<"m","e","e","t","i","n","g">>, <<"n","o","t","e">>,
    <<"j","s","o","n">>, <<"r","e","t","u","r","n">>,
    <<"o","b","j","e","c","t">>, <<"a","r","r","a","y">>,
    <<"s","u","m","m","a","r","y">>, <<"t","o","p","i","c","s">>,
    <<"n","a","m","e","s">>, <<"p","e","r","s","o","n">>,
    <<"k","e","y","w","o","r","d">>, <<"p","h","r","a","s","e">>,
    <<"b","r","i","e","f">>, <<"s","e","n","t","e","n","c","e">>,
    <<"i","n","f","o","r","m","a","t","i","o","n">>, <<"d","a","t","a">>,
    <<"v","a","l","i","d">>, <<"f","o","l","l","o","w","i","n","g">>,
    <<"m","e","n","t","i","o","n","e","d">>,
    <<"c","o","n","v","e","r","s","a","t","i","o","n">>,
    <<"d","i","s","c","u","s","s","e","d">>, <<"i","n","c","l","u","d","e">>,
    <<"d","i","s","t","i","n","c","t">>, <<"p","a","r","s","e">>
  }

\* isStopWord lines 326-338
stops ==
  {
    <<"a">>, <<"a","n">>, <<"t","h","e">>, <<"a","n","d">>, <<"o","r">>,
    <<"b","u","t">>, <<"i","n">>, <<"o","n">>, <<"a","t">>, <<"t","o">>,
    <<"f","o","r">>, <<"o","f">>, <<"w","i","t","h">>, <<"b","y">>,
    <<"f","r","o","m">>, <<"i","s">>, <<"w","a","s">>, <<"a","r","e">>,
    <<"w","e","r","e">>, <<"b","e">>, <<"b","e","e","n">>,
    <<"h","a","v","e">>, <<"h","a","s">>, <<"h","a","d">>, <<"d","o">>,
    <<"d","o","e","s">>, <<"d","i","d">>, <<"w","i","l","l">>,
    <<"w","o","u","l","d">>, <<"c","o","u","l","d">>,
    <<"s","h","o","u","l","d">>, <<"m","a","y">>, <<"m","i","g","h","t">>,
    <<"i">>, <<"m","e">>, <<"m","y">>, <<"w","e">>, <<"o","u","r">>,
    <<"y","o","u">>, <<"y","o","u","r">>, <<"h","e">>, <<"h","i","m">>,
    <<"s","h","e">>, <<"h","e","r">>, <<"i","t">>, <<"t","h","e","y">>,
    <<"t","h","e","m">>, <<"t","h","e","i","r">>, <<"a","b","o","u","t">>,
    <<"e","x","t","r","a","c","t">>, <<"a","n","a","l","y","z","e">>,
    <<"m","e","e","t","i","n","g">>, <<"n","o","t","e">>,
    <<"j","s","o","n">>, <<"r","e","t","u","r","n">>,
    <<"o","b","j","e","c","t">>, <<"a","r","r","a","y">>,
    <<"s","u","m","m","a","r","y">>, <<"t","o","p","i","c","s">>,
    <<"n","a","m","e","s">>, <<"p","e","r","s","o","n">>,
    <<"k","e","y","w","o","r","d">>, <<"p","h","r","a","s","e">>,
    <<"b","r","i","e","f">>, <<"s","e","n","t","e","n","c","e">>,
    <<"i","n","f","o","r","m","a","t","i","o","n">>, <<"d","a","t","a">>,
    <<"v","a","l","i","d">>, <<"f","o","l","l","o","w","i","n","g">>,
    <<"m","e","n","t","i","o","n","e","d">>,
    <<"c","o","n","v","e","r","s","a","t","i","o","n">>,
    <<"d","i","s","c","u","s","s","e","d">>, <<"i","n","c","l","u","d","e">>,
    <<"d","i","s","t","i","n","c","t">>, <<"p","a","r","s","e">>
  }

isPromptWord(word) == ToLowerCase(word) \in PROMPT_WORDS

isStopWord(word) == ToLowerCase(word) \in stops

\* String.prototype.indexOf, counted from 1 (0: not found)
FirstIndexOf(text, word) ==
  IF \E i \in 1 .. (Len(text) - Len(word) + 1) : StartsWith(text, i, word)
  THEN CHOOSE i \in 1 .. (Len(text) - Len(word) + 1) :
         /\ StartsWith(text, i, word)
         /\ \A j \in 1 .. (i - 1) : ~StartsWith(text, j, word)
  ELSE 0

\* lines 238-246: <<bestIdx, bestMarkerLen>> after the markers from k on
RECURSIVE BestMarker(_, _, _)
BestMarker(lower, k, best) ==
  IF k > Len(markers) THEN best
  ELSE BestMarker(lower, k + 1,
                  IF /\ FirstIndexOf(lower, markers[k]) # 0
                     /\ FirstIndexOf(lower, markers[k]) > best[1]
                  THEN <<FirstIndexOf(lower, markers[k]), Len(markers[k])>>
                  ELSE best)

\* .replace(/^[\s`\-:]+/, "")
LeadChars == WhiteSpace \cup {Backtick, "-", ":"}
StripLead(text) == SubSeq(text, RunEnd(text, 1, LeadChars) + 1, Len(text))

\* line 248: what follows the marker, stripped and trimmed
AfterMarker(prompt, best) ==
  Trimmed(StripLead(SubSeq(prompt, best[1] + best[2], Len(prompt))))

\* Array.prototype.join
RECURSIVE JoinWith(_, _)
JoinWith(pieces, sep) ==
  IF pieces = <<>> THEN <<>>
  ELSE IF Len(pieces) = 1 THEN pieces[1]
       ELSE Head(pieces) \o sep \o JoinWith(Tail(pieces), sep)

\* \b at i: between the characters i - 1 and i exactly one is a \w
WordChars == LowerSet \cup UpperSet \cup Digit \cup {"_"}
IsWordAt(text, i) == i >= 1 /\ i <= Len(text) /\ text[i] \in WordChars
Boundary(text, i) == IsWordAt(text, i - 1) # IsWordAt(text, i)

\* /\b(w1|w2|...)\b/.test(text)
HasWord(text, words) ==
  \E w \in words : \E i \in 1 .. Len(text) :
    StartsWith(text, i, w) /\ Boundary(text, i) /\ Boundary(text, i + Len(w))

Imperatives ==
  {
    <<"e","x","t","r","a","c","t">>, <<"a","n","a","l","y","z","e">>,
    <<"p","a","r","s","e">>, <<"r","e","t","u","r","n">>,
    <<"p","r","o","v","i","d","e">>, <<"g","e","n","e","r","a","t","e">>,
    <<"c","r","e","a","t","e">>, <<"o","u","t","p","u","t">>,
    <<"i","d","e","n","t","i","f","y">>, <<"l","i","s","t">>,
    <<"f","i","n","d">>
  }
JsonCompany ==
  {
    <<"r","e","t","u","r","n">>, <<"f","o","r","m","a","t">>,
    <<"v","a","l","i","d">>, <<"o","b","j","e","c","t">>,
    <<"a","r","r","a","y">>
  }

\* lines 254-261 for the line l, lower case and trimmed
KeptLine(l) ==
  /\ Len(l) # 0
  /\ ~\E w \in Imperatives : StartsWith(l, 1, w) /\ Boundary(l, Len(w) + 1)
  /\ ~(HasWord(l, {<<"j","s","o","n">>}) /\ HasWord(l, JsonCompany))

ContentLine(line) == KeptLine(Trimmed(ToLowerCase(line)))

\* lines 253-263
ContentOf(prompt) ==
  Trimmed(JoinWith(SelectSeq(SplitOn(prompt, 1, {"\n"}, FALSE),
                             ContentLine),
                   <<"\n">>))

\* lines 228-264
getMeetingText(prompt) ==
  IF /\ BestMarker(ToLowerCase(prompt), 1, <<0, 0>>)[1] # 0
     /\ Len(AfterMarker(prompt, BestMarker(ToLowerCase(prompt), 1, <<0, 0>>))) > 20
  THEN AfterMarker(prompt, BestMarker(ToLowerCase(prompt), 1, <<0, 0>>))
  ELSE IF ContentOf(prompt) # <<>> THEN ContentOf(prompt) ELSE prompt

SentenceEnds == {".", "!", "?"}

TrimAll(pieces) == [k \in DOMAIN pieces |-> Trimmed(pieces[k])]

LongEnough(s) == Len(s) > 10

\* lines 174-177
SentencesOf(meetingText) ==
  SelectSeq(TrimAll(SplitOn(meetingText, 1, SentenceEnds, TRUE)),
            LongEnough)

\* lines 179-183
SummaryOf(meetingText, sentences) ==
  IF Len(sentences) = 0 THEN Take(meetingText, 200)
  ELSE IF Len(JoinWith(Take(sentences, 2), <<".", " ">>)) + 1 > 300
       THEN Take(JoinWith(Take(sentences, 2), <<".", " ">>) \o <<".">>, 297)
            \o <<".", ".", ".">>
       ELSE JoinWith(Take(sentences, 2), <<".", " ">>) \o <<".">>

\* lines 171-184
extractSummary(text) ==
  SummaryOf(getMeetingText(text), SentencesOf(getMeetingText(text)))

\* the frequency table of words[1 .. n], in insertion order
RECURSIVE Freq(_, _)
Freq(words, n) ==
  IF n = 0 THEN <<>> ELSE Vote(Freq(words, n - 1), words[n])

KeysOf(entries) == [k \in DOMAIN entries |-> entries[k].name]

\* Object.entries(freq).sort((a, b) => b[1] - a[1]).slice(0, n).map(([w]) => w)
TopKeys(words, n) == KeysOf(Take(SortByVotes(Freq(words, Len(words))), n))

\* embeddings: extractKeywords, lines 39-50
extractKeywords(text, maxKeywords) == TopKeys(tokenize(text), maxKeywords)

NotPromptWord(word) == ~isPromptWord(word)

Plain(word) == ~isStopWord(word) /\ ~isPromptWord(word)

\* lines 198-204: the bigrams that start at words[1 .. n], in order
RECURSIVE TopicBigrams(_, _)
TopicBigrams(words, n) ==
  IF n < 1 THEN <<>>
  ELSE IF Plain(words[n]) /\ Plain(words[n + 1])
       THEN Append(TopicBigrams(words, n - 1), words[n] \o <<" ">> \o words[n + 1])
       ELSE TopicBigrams(words, n - 1)

\* lines 216-221: the keywords from k on that no topic contains, until
\* there are eight topics
RECURSIVE AddKeywords(_, _, _)
AddKeywords(topics, keywords, k) ==
  IF k > Len(keywords) THEN topics
  ELSE IF \E i \in DOMAIN topics : Includes(topics[i], keywords[k])
       THEN IF Len(topics) >= 8 THEN topics
            ELSE AddKeywords(topics, keywords, k + 1)
       ELSE IF Len(topics) + 1 >= 8 THEN Append(topics, keywords[k])
            ELSE AddKeywords(Append(topics, keywords[k]), keywords, k + 1)

TopicsOf(meetingText, words) ==
  Take(AddKeywords(TopKeys(TopicBigrams(words, Len(words) - 1), 5),
                   SelectSeq(extractKeywords(meetingText, 15), NotPromptWord),
                   1),
       8)

\* lines 189-224
extractTopics(text) == TopicsOf(getMeetingText(text), tokenize(getMeetingText(text)))

InitSummary ==
  /\ db = [EmptyDb EXCEPT !.settings = OfflineSettings]
  /\ reqs = [s \in {1} |-> Idle]

\* extractMultiMeetingData lines 70-71 on the prompt of handlePreview, for a
\* note that POST accepts (route.ts 43: the text is not empty)
Summarized ==
  \E s \in {t \in DOMAIN reqs : reqs[t].pc = "idle"} :
    \E sentences \in SeqsUpTo(Sentences, MaxSentences) \ {<<>>} :
    /\ Put(s, [kind |-> "summarize", pc |-> "done",
               body |-> [text |-> Joined(sentences)],
               loc |-> NULL, pre |-> db, preview |-> NULL,
               resp |-> [status |-> 200,
                         summary |-> extractSummary(Prompt(Joined(sentences))),
                         topics |-> extractTopics(Prompt(Joined(sentences)))],
               prev |-> NoPrev])
    /\ UNCHANGED db

NextSummary == Summarized

SpecSummary == InitSummary /\ [][NextSummary]_vars

(***************************************************************************)
(* Concurrent quick logs, offline, over an empty roster: each request is   *)
(* the preview call followed by the confirm call, and the two requests     *)
(* interleave at their awaits.                                             *)
(***************************************************************************)
MaxQuickConc == 2
QuickConcTexts == {"t1", "r1"}

InitQuickConc ==
  /\ db = [EmptyDb EXCEPT !.settings = OfflineSettings]
  /\ reqs = [s \in 1 .. ConcRequests |-> Idle]

QuickConcArrives ==
  /\ RoomForMeeting(MaxQuickConc)
  /\ \E s \in DOMAIN reqs, t \in QuickConcTexts : StartQuickLog(s, t)

NextQuickConc ==
  \/ QuickConcArrives
  \/ LLMSettles
  \/ MeetingEmbedSettles
  \/ PersonEmbedSettles

SpecQuickConc == InitQuickConc /\ [][NextQuickConc]_vars

(***************************************************************************)
(* Properties of the resolver.                                             *)
(***************************************************************************)
PreviewDone(s) ==
  reqs[s].kind = "preview" /\ reqs[s].pc = "done" /\ reqs[s].resp.status = 200

ScoreOf(extractedName, p) ==
  stringSimilarity(ToLowerCase(extractedName), ToLowerCase(p.name))

Min(a, b) == IF a < b THEN a ELSE b

\* the scores of extractedName against the first n roster entries, in order
RECURSIVE RosterScores(_, _, _)
RosterScores(extractedName, roster, n) ==
  IF n = 0 THEN <<>>
  ELSE Append(RosterScores(extractedName, roster, n - 1),
              ScoreOf(extractedName, roster[n]))

\* C6: in a preview response, a name's bestMatch is a highest-scoring roster
\* entry exactly when that entry scores at least 0.4 (confidence is then its
\* score); otherwise bestMatch is null, isNew is true and confidence is 0.
\* isNew holds if and only if no roster entry scores at least 0.4.
C6_BestMatchAtThreshold ==
  \A s \in DOMAIN reqs :
    PreviewDone(s) =>
      \A k \in DOMAIN reqs[s].resp.matches :
        LET m == reqs[s].resp.matches[k]
            roster == reqs[s].loc.allPeople
            sc == RosterScores(m.extractedName, roster, Len(roster))
            good == {i \in DOMAIN roster : FracGeq(sc[i], AcceptThreshold)}
        IN /\ m.isNew <=> good = {}
           /\ good = {} => m.bestMatch = NoPerson /\ m.confidence[1] = 0
           /\ good # {} =>
                /\ m.bestMatch # NoPerson
                /\ \E i \in good :
                     /\ roster[i].id = m.bestMatch.id
                     /\ roster[i].name = m.bestMatch.name
                     /\ FracEq(m.confidence, sc[i])
                     /\ \A j \in DOMAIN roster : FracGeq(sc[i], sc[j])

\* A preview over a roster of several people in which one name is accepted
\* with a score of exactly 0.4 and another name of the same note is new.
C6_Witness ==
  \E s \in DOMAIN reqs :
    /\ PreviewDone(s)
    /\ \E k1, k2 \in DOMAIN reqs[s].resp.matches :
         /\ reqs[s].resp.matches[k1].bestMatch # NoPerson
         /\ Len(reqs[s].loc.allPeople) > 1
         /\ FracEq(reqs[s].resp.matches[k1].confidence, AcceptThreshold)
         /\ reqs[s].resp.matches[k2].isNew

NonIncreasing(c) ==
  \A k \in 1 .. (Len(c) - 1) : FracGeq(c[k].score, c[k + 1].score)

\* C7 as claimed: candidates is the whole roster sorted by score descending
\* and cut to 5: min(5, roster size) entries, non-increasing, no entry left
\* out scores higher than one in it.
C7_CandidatesTopFiveOfRoster ==
  \A s \in DOMAIN reqs :
    PreviewDone(s) =>
      \A k \in DOMAIN reqs[s].resp.matches :
        LET m == reqs[s].resp.matches[k]
            c == m.candidates
            roster == reqs[s].loc.allPeople
            sc == RosterScores(m.extractedName, roster, Len(roster))
            ids == {c[x].id : x \in DOMAIN c}
        IN /\ Len(c) = Min(TopK, Len(roster))
           /\ NonIncreasing(c)
           /\ \A i \in DOMAIN roster :
                roster[i].id \notin ids =>
                  \A x \in DOMAIN c : FracGeq(c[x].score, sc[i])

\* C7 amended: candidates is the roster entries scoring above 0.2, sorted by
\* score descending and cut to 5: it has min(5, number of such entries)
\* entries, each a distinct roster entry with its score, in non-increasing
\* order, and no entry above 0.2 left out scores higher than one in it.
C7_CandidatesTopFiveAboveFloor ==
  \A s \in DOMAIN reqs :
    PreviewDone(s) =>
      \A k \in DOMAIN reqs[s].resp.matches :
        LET m == reqs[s].resp.matches[k]
            c == m.candidates
            roster == reqs[s].loc.allPeople
            sc == RosterScores(m.extractedName, roster, Len(roster))
            ids == {c[x].id : x \in DOMAIN c}
            above == {i \in DOMAIN roster : FracGt(sc[i], CandidateFloor)}
        IN /\ Len(c) = Min(TopK, Cardinality(above))
           /\ Cardinality(ids) = Len(c)
           /\ NonIncreasing(c)
           /\ \A x \in DOMAIN c :
                \E i \in above :
                  /\ roster[i].id = c[x].id
                  /\ roster[i].name = c[x].name
                  /\ FracEq(c[x].score, sc[i])
           /\ \A i \in above :
                roster[i].id \notin ids =>
                  \A x \in DOMAIN c : FracGeq(c[x].score, sc[i])

\* A preview over a roster with more than 5 entries above 0.2, the last of
\* which scores higher than the first, so the cut drops an entry and the
\* sort reorders.
C7_Witness ==
  \E s \in DOMAIN reqs :
    /\ PreviewDone(s)
    /\ \E k \in DOMAIN reqs[s].resp.matches :
         LET m == reqs[s].resp.matches[k]
             roster == reqs[s].loc.allPeople
             sc == RosterScores(m.extractedName, roster, Len(roster))
             above == {i \in DOMAIN roster : FracGt(sc[i], CandidateFloor)}
         IN /\ Cardinality(above) > TopK
            /\ Len(m.candidates) = TopK
            /\ Len(roster) \in above
            /\ FracGt(sc[Len(roster)], sc[1])


(***************************************************************************)
(* Properties of ingestion.                                                *)
(***************************************************************************)
ConfirmDone(s) ==
  reqs[s].kind = "confirm" /\ reqs[s].pc = "done" /\ reqs[s].resp.status = 200

RowsJoining(rels, a, b) ==
  {k \in DOMAIN rels : {rels[k].personAId, rels[k].personBId} = {a, b}}

\* the strength of the pair's row, 0 without a row
StrengthOf(rels, a, b) ==
  IF RowsJoining(rels, a, b) = {} THEN 0
  ELSE rels[CHOOSE k \in RowsJoining(rels, a, b) : TRUE].strength

ContextBefore(pre, id) ==
  IF id <= Len(pre.people) THEN pre.people[id].context ELSE <<>>

\* C1: every step of a preview request, whatever the LLM returned and
\* whatever matched, leaves the people, meetings, meeting_people,
\* relationships and settings tables as they were.
C1_PreviewWritesNothing ==
  [][(\E s \in DOMAIN reqs : reqs'[s].kind = "preview" /\ reqs'[s].pc # reqs[s].pc)
       => db' = db]_vars

\* A preview answered over tables that hold a meeting, in which one name
\* matched a person and another is new.
C1_Witness ==
  \E s \in DOMAIN reqs :
    /\ PreviewDone(s)
    /\ Len(db.meetings) > 0
    /\ \E k1, k2 \in DOMAIN reqs[s].resp.matches :
         /\ reqs[s].resp.matches[k1].bestMatch # NoPerson
         /\ reqs[s].resp.matches[k2].isNew

\* C2: with confirms run one after another, no two distinct rows of the
\* relationships table join the same unordered pair of person ids.
C2_OneRowPerPair ==
  \A k1, k2 \in DOMAIN db.relationships :
    k1 # k2 =>
      {db.relationships[k1].personAId, db.relationships[k1].personBId}
        # {db.relationships[k2].personAId, db.relationships[k2].personBId}

\* A confirm that linked person 2 before person 1 and found the row stored
\* as (1, 2): the only row, now of strength 2.
C2_Witness ==
  \E s \in DOMAIN reqs :
    /\ ConfirmDone(s)
    /\ reqs[s].resp.linkedPeople = <<2, 1>>
    /\ Len(db.relationships) = 1
    /\ db.relationships[1].personAId = 1
    /\ db.relationships[1].personBId = 2
    /\ db.relationships[1].strength = 2

\* C3 as claimed: after one confirm, every pair of persons it linked has
\* exactly one row, of strength 1 if it had none before and s + 1 if it had
\* strength s; no pair's strength changed by more than 1.
C3_StrengthStepsByOne ==
  \A s \in DOMAIN reqs :
    ConfirmDone(s) =>
      /\ \A a, b \in Range(reqs[s].resp.linkedPeople) :
           a < b =>
             /\ Cardinality(RowsJoining(db.relationships, a, b)) = 1
             /\ StrengthOf(db.relationships, a, b)
                  = StrengthOf(reqs[s].pre.relationships, a, b) + 1
      /\ \A a, b \in 1 .. Len(db.people) :
           StrengthOf(db.relationships, a, b)
             - StrengthOf(reqs[s].pre.relationships, a, b) \in {0, 1}

\* C9 as claimed: after a confirm, the context of every person it linked is
\* the person's previous context followed by the summary, once; the summary
\* alone for a person the confirm created.
C9_ContextGainsSummaryOnce ==
  \A s \in DOMAIN reqs :
    ConfirmDone(s) =>
      \A id \in Range(reqs[s].resp.linkedPeople) :
        db.people[id].context
          = Append(ContextBefore(reqs[s].pre, id), reqs[s].body.summary)

\* C8: a confirm completes with success whether or not the embedder threw:
\* its meeting row is there, with the embedding or with null; every
\* assignment's person was created or loaded and is linked to the meeting;
\* the person's context is the previous one followed by the summary; the
\* person's embedding is null or the vector of some context.
C8_ConfirmSurvivesEmbedder ==
  \A s \in DOMAIN reqs :
    (reqs[s].kind = "confirm" /\ reqs[s].pc = "done") =>
      LET r == reqs[s]
          m == r.loc.meetingId
          linked == r.resp.linkedPeople
      IN /\ r.resp.status = 200
         /\ m = Len(r.pre.meetings) + 1
         /\ db.meetings[m].rawInput = r.body.text
         /\ db.meetings[m].summary = r.body.summary
         /\ db.meetings[m].embedding \in {NoEmbedding, Embed(r.body.text)}
         /\ Len(linked) = Len(r.body.assignments)
         /\ \A k \in DOMAIN r.body.assignments :
              LET a == r.body.assignments[k]
                  id == linked[k]
                  before == ContextBefore(r.pre, id)
                  ctx == db.people[id].context
              IN /\ IF a.createNew
                    THEN id > Len(r.pre.people) /\ db.people[id].name = a.extractedName
                    ELSE id = a.personId
                 /\ \E j \in DOMAIN db.meetingPeople :
                      /\ db.meetingPeople[j].meetingId = m
                      /\ db.meetingPeople[j].personId = id
                 /\ Len(ctx) > Len(before)
                 /\ SubSeq(ctx, 1, Len(before)) = before
                 /\ \A x \in (Len(before) + 1) .. Len(ctx) : ctx[x] = r.body.summary
                 /\ \/ db.people[id].embedding = NoEmbedding
                    \/ \E n \in 1 .. Len(ctx) :
                         db.people[id].embedding = Embed(SubSeq(ctx, 1, n))

\* A finished confirm whose meeting has no embedding and that linked a
\* person of the roster whose context it extended and whose embedding is
\* not the vector of that context.
C8_Witness ==
  \E s \in DOMAIN reqs :
    /\ ConfirmDone(s)
    /\ db.meetings[reqs[s].loc.meetingId].embedding = NoEmbedding
    /\ \E k \in DOMAIN reqs[s].body.assignments :
         LET id == reqs[s].resp.linkedPeople[k]
         IN /\ ~reqs[s].body.assignments[k].createNew
            /\ Len(db.people[id].context) > Len(reqs[s].pre.people[id].context)
            /\ db.people[id].embedding # Embed(db.people[id].context)

\* C4: with confirms running concurrently, each linking persons 1 and 2,
\* there is never more than one row for the pair, and once all have
\* finished the one row's strength is the number of requests.
C4_ConcurrentConfirmsOneRow ==
  /\ Cardinality(RowsJoining(db.relationships, 1, 2)) <= 1
  /\ (\A s \in DOMAIN reqs : reqs[s].pc = "done") =>
       /\ Len(db.relationships) = 1
       /\ db.relationships[1].strength = Len(reqs)

\* All requests have finished, two of them named the pair in opposite
\* orders, and they overlapped: a context update of person 1 was lost.
C4_Witness ==
  /\ \A s \in DOMAIN reqs : reqs[s].pc = "done" /\ reqs[s].resp.status = 200
  /\ reqs[1].body.assignments[1] # reqs[2].body.assignments[1]
  /\ Len(db.people[1].context) < Len(reqs)
  /\ Len(db.relationships) = 1


(***************************************************************************)
(* Properties of the quick log.                                            *)
(***************************************************************************)
QuickLogDone(s) ==
  reqs[s].kind = "quicklog" /\ reqs[s].pc = "done" /\ reqs[s].resp.status = 200

NamedRows(people, n) == {k \in DOMAIN people : people[k].name = n}

\* the note names two different people
TwoNames(t) == Len(NoteNames(t)) = 2 /\ NoteNames(t)[1] # NoteNames(t)[2]

\* the roster holds nobody under either name of the note
Absent(roster, t) ==
  \A i \in DOMAIN roster : roster[i].name \notin Range(NoteNames(t))

\* the roster holds nobody who scores 0.4 or more against a name of the
\* note; the names have two characters or more and the first does not score
\* 1 against the second
Unmatched(roster, t) ==
  /\ \A k \in DOMAIN NoteNames(t) :
       /\ Len(NoteNames(t)[k]) >= 2
       /\ \A i \in DOMAIN roster :
            ~FracGeq(ScoreOf(NoteNames(t)[k], roster[i]), AcceptThreshold)
  /\ ~FracGeq(stringSimilarity(ToLowerCase(NoteNames(t)[1]), ToLowerCase(NoteNames(t)[2])),
              <<1, 1>>)

\* The tables after the first (nth = 1) or second (nth = 2) quick log of
\* note t in slot s: two people under the two names, one row between them
\* with strength nth; the second created no person and no row.
TwoPeopleOneRow(s, t, nth) ==
  LET n1 == NoteNames(t)[1]
      n2 == NoteNames(t)[2]
  IN /\ Cardinality(NamedRows(db.people, n1)) = 1
     /\ Cardinality(NamedRows(db.people, n2)) = 1
     /\ \E a \in NamedRows(db.people, n1), b \in NamedRows(db.people, n2) :
          /\ Cardinality(RowsJoining(db.relationships, a, b)) = 1
          /\ StrengthOf(db.relationships, a, b) = nth
     /\ nth = 2 =>
          /\ Len(db.people) = Len(reqs[s].pre.people)
          /\ Len(db.relationships) = Len(reqs[s].pre.relationships)

\* slot s has finished the second of two successive quick logs of its note
SecondOfTwo(s) ==
  /\ reqs[s].prev.kind = "quicklog"
  /\ reqs[s].prev.status = 200
  /\ reqs[s].prev.text = reqs[s].body.text

SelfFor(s, name) ==
  \/ ToLowerCase(name) \in {<<"y","o","u">>, <<"d","u">>, <<"i","c","h">>}
  \/ /\ reqs[s].body.selfName # NoName
     /\ ToLowerCase(name) = ToLowerCase(reqs[s].body.selfName)

\* the days of the chat in slot s on which somebody other than self wrote
DaysWithOthers(s) ==
  {reqs[s].body.parsed.messages[i].day :
     i \in {j \in DOMAIN reqs[s].body.parsed.messages :
              ~SelfFor(s, reqs[s].body.parsed.messages[j].sender)}}

\* C10: at every point of an import, no person it created bears a self
\* name; no self-named participant was resolved to a person, reported as new
\* or as matched; every link it inserted is to the person resolved for a
\* participant that is not self; every meeting it created is of a day on
\* which somebody other than self wrote, and names no self participant.
C10_SelfNeverImported ==
  \A s \in DOMAIN reqs :
    reqs[s].kind = "import" =>
      /\ \A k \in (Len(reqs[s].pre.people) + 1) .. Len(db.people) :
           ~SelfFor(s, db.people[k].name)
      /\ \A i \in DOMAIN reqs[s].loc.personMap : ~SelfFor(s, reqs[s].loc.personMap[i].name)
      /\ \A i \in DOMAIN reqs[s].resp.newPeople : ~SelfFor(s, reqs[s].resp.newPeople[i])
      /\ \A i \in DOMAIN reqs[s].resp.matchedPeople :
           ~SelfFor(s, reqs[s].resp.matchedPeople[i].participant)
      /\ \A j \in (Len(reqs[s].pre.meetingPeople) + 1) .. Len(db.meetingPeople) :
           \E i \in DOMAIN reqs[s].loc.personMap :
             reqs[s].loc.personMap[i].id = db.meetingPeople[j].personId
      /\ \A m \in (Len(reqs[s].pre.meetings) + 1) .. Len(db.meetings) :
           /\ SqlDate(db.meetings[m].date) \in DaysWithOthers(s)
           /\ \A i \in DOMAIN db.meetings[m].summary.with :
                ~SelfFor(s, db.meetings[m].summary.with[i])

\* A finished import given the owner's name, of a chat in which the owner
\* wrote under that name in capitals, alone on one day, over a roster that
\* holds a person of that name; another day became a meeting.
C10_Witness ==
  \E s \in DOMAIN reqs :
    /\ reqs[s].kind = "import"
    /\ reqs[s].pc = "done"
    /\ reqs[s].body.selfName = Owner
    /\ OWNER \in Range(reqs[s].body.parsed.participants)
    /\ \E k \in DOMAIN reqs[s].pre.people : reqs[s].pre.people[k].name = Owner
    /\ \E i \in DOMAIN reqs[s].body.parsed.messages :
         reqs[s].body.parsed.messages[i].day \notin DaysWithOthers(s)
    /\ reqs[s].resp.meetingsCreated = 1
    /\ Len(db.meetingPeople) = Len(reqs[s].pre.meetingPeople) + 1

(***************************************************************************)
(* The people routes.                                                      *)
(***************************************************************************)
Deleted(s) == reqs[s].kind = "personDelete" /\ reqs[s].pc = "done"

\* C11: deleting a Person removes the Person's meeting links and
\* Relationships and never a Meeting: every Meeting row from before the
\* delete is still there after it.
C11_DeleteKeepsMeetings ==
  \A s \in DOMAIN reqs :
    Deleted(s) =>
      /\ \A l \in Range(db.meetingPeople) : l.personId # reqs[s].body.id
      /\ \A r \in Range(db.relationships) :
           r.personAId # reqs[s].body.id /\ r.personBId # reqs[s].body.id
      /\ \A m \in Range(reqs[s].pre.meetings) : m \in Range(db.meetings)

\* C12: every Person row has a non-empty name, after any sequence of person
\* creates, person updates and confirms.
C12_NamesNonEmpty == \A p \in Range(db.people) : p.name # <<>>

(***************************************************************************)
(* The resolvers at other thresholds.                                      *)
(***************************************************************************)
ResolvedAt(s) == reqs[s].kind = "resolve"

\* C13: over one roster and one list of names, a resolver with a higher
\* acceptance threshold accepts no more names than with a lower one.
C13_AcceptedAntitone ==
  \A s1, s2 \in DOMAIN reqs :
    /\ ResolvedAt(s1) /\ ResolvedAt(s2)
    /\ reqs[s1].body.names = reqs[s2].body.names
    /\ FracGeq(reqs[s2].body.threshold, reqs[s1].body.threshold)
    => /\ reqs[s2].resp.preview <= reqs[s1].resp.preview
       /\ reqs[s2].resp.import <= reqs[s1].resp.import

C13_Witness ==
  \E s1, s2 \in DOMAIN reqs :
    /\ ResolvedAt(s1) /\ ResolvedAt(s2)
    /\ reqs[s1].body.names = reqs[s2].body.names
    /\ FracGt(reqs[s2].body.threshold, reqs[s1].body.threshold)
    /\ reqs[s2].resp.preview < reqs[s1].resp.preview
    /\ reqs[s2].resp.import < reqs[s1].resp.import
    /\ reqs[s2].resp.preview > 0

(***************************************************************************)
(* nameMatchScore.                                                         *)
(***************************************************************************)
ScoreDone(s) == reqs[s].kind = "score" /\ reqs[s].pc = "done"

\* the tokens present in both names
SharedTokens(la, lb) == Range(SplitWhitespace(la)) \cap Range(SplitWhitespace(lb))

\* C14: on the lower-cased and trimmed names, nameMatchScore(a, b) is 1 when
\* they are equal, 0.8 when they differ and one contains the other, and else
\* the number of distinct tokens present in both over the larger token count;
\* it lies in [0, 1] and is the same for (a, b) and (b, a).
C14_ScoreAsSpecified ==
  \A s \in DOMAIN reqs :
    ScoreDone(s) =>
      LET la == Trim(ToLowerCase(reqs[s].body.a))
          lb == Trim(ToLowerCase(reqs[s].body.b))
          score == reqs[s].resp.score
      IN /\ la = lb => FracEq(score, <<1, 1>>)
         /\ la # lb /\ (Includes(la, lb) \/ Includes(lb, la)) => FracEq(score, <<4, 5>>)
         /\ la # lb /\ ~Includes(la, lb) /\ ~Includes(lb, la) =>
              FracEq(score, <<Cardinality(SharedTokens(la, lb)),
                              Max(Len(SplitWhitespace(la)), Len(SplitWhitespace(lb)))>>)
         /\ FracGeq(score, <<0, 1>>) /\ FracGeq(<<1, 1>>, score)
         /\ FracEq(score, nameMatchScore(reqs[s].body.b, reqs[s].body.a))

(***************************************************************************)
(* The typo scenario.                                                      *)
(***************************************************************************)
\* C15: with "Sarah Chen" in the roster, resolving "Sara Chen" by token
\* overlap gives her id with a score of at least 0.4 and below 1, and no
\* Person is created.
C15_TypoResolvesToSarah ==
  \A s \in DOMAIN reqs :
    /\ reqs[s].kind = "findOrCreate"
    /\ reqs[s].body.name = SaraChen
    /\ \E p \in Range(reqs[s].pre.people) : p.name = SarahChen
    => /\ FracGeq(nameMatchScore(SaraChen, SarahChen), AcceptThreshold)
       /\ FracGt(<<1, 1>>, nameMatchScore(SaraChen, SarahChen))
       /\ \E p \in Range(reqs[s].pre.people) :
            p.name = SarahChen /\ reqs[s].resp.id = p.id
       /\ ~reqs[s].resp.isNew
       /\ db.people = reqs[s].pre.people

(***************************************************************************)
(* The offline extractor.                                                  *)
(***************************************************************************)
ExtractDone(s) == reqs[s].kind = "extract" /\ reqs[s].pc = "done"

\* the first word of a candidate, up to its first white space
FirstToken(name) == SubSeq(name, 1, RunEnd(name, 1, Range(name) \ WhiteSpace))

\* the candidates that pass the skip list and the length filter
Survivors(matches) ==
  {matches[k] : k \in {j \in DOMAIN matches :
                         FirstToken(matches[j]) \notin skipWords /\ Len(matches[j]) > 2}}

VotesFor(matches, name) == Cardinality({k \in DOMAIN matches : matches[k] = name})

\* C16: the all-names extractor returns a non-empty list: ["Unknown Person"]
\* when no candidate passes the skip list and the length filter, else the
\* candidates that pass, each once, in order of descending vote count, none
\* with a first token on the skip list or of at most 2 characters.
C16_NamesAreSurvivors ==
  \A s \in DOMAIN reqs :
    ExtractDone(s) =>
      LET names == reqs[s].resp.names
          matches == AllMatches(Prompt(reqs[s].body.text))
      IN /\ reqs[s].resp.status = 200
         /\ Len(names) >= 1
         /\ Survivors(matches) = {} => names = <<UnknownPerson>>
         /\ Survivors(matches) # {} =>
              /\ Range(names) = Survivors(matches)
              /\ Len(names) = Cardinality(Survivors(matches))
              /\ \A k \in 1 .. (Len(names) - 1) :
                   VotesFor(matches, names[k]) >= VotesFor(matches, names[k + 1])

\* C17: for "Had coffee with Sarah Chen and David Kim, discussed AI
\* infrastructure." the extractor returns both "Sarah Chen" and "David Kim".
C17_BothNamesExtracted ==
  \A s \in DOMAIN reqs :
    ExtractDone(s) /\ reqs[s].body.text = CoffeeNote =>
      /\ SarahChen \in Range(reqs[s].resp.names)
      /\ DavidKim \in Range(reqs[s].resp.names)

(***************************************************************************)
(* C18.  Whenever no API key is stored in the settings, getLLM and         *)
(* getEmbedder both hand out the offline fallback provider, whatever       *)
(* provider names are configured.                                          *)
(***************************************************************************)
ProvidersDone(s) == reqs[s].kind = "providers" /\ reqs[s].pc = "done"

NoApiKey(d) == GetVal(d, "llm_api_key") = ""

C18_NoKeyMeansOffline ==
  \A s \in DOMAIN reqs :
    ProvidersDone(s) /\ NoApiKey(reqs[s].pre) =>
      /\ reqs[s].resp.llm = "FallbackProvider"
      /\ reqs[s].resp.embedder = "FallbackProvider"

\* providers resolved with both names set to a remote provider and no key
C18_Witness ==
  \E s \in DOMAIN reqs :
    /\ ProvidersDone(s)
    /\ NoApiKey(reqs[s].pre)
    /\ GetVal(reqs[s].pre, "llm_provider") = "openai"
    /\ GetVal(reqs[s].pre, "embedding_provider") = "gemini"
    /\ reqs[s].resp.llm = "FallbackProvider"
    /\ reqs[s].resp.embedder = "FallbackProvider"

(***************************************************************************)
(* C19.  Structured-output parsing returns the parsed value when the       *)
(* provider's text, with the markdown fences removed, is valid JSON;       *)
(* otherwise it makes exactly one further attempt, on the first {...} or   *)
(* [...] substring, and raises an error to its caller when there is no     *)
(* such substring or that attempt fails too.                               *)
(***************************************************************************)
ParseDone(s) == reqs[s].kind = "parse" /\ reqs[s].pc = "done"

\* where a {...} or a [...] can start: an opener with its closer further on
Openers(c) ==
  {i \in DOMAIN c :
     \/ c[i] = "{" /\ \E j \in DOMAIN c : j > i /\ c[j] = "}"
     \/ c[i] = "[" /\ \E j \in DOMAIN c : j > i /\ c[j] = "]"}

\* from the first opener to the last closer of its kind
FirstBracketed(c) ==
  LET i == CHOOSE k \in Openers(c) : \A l \in Openers(c) : k <= l
      closers == {j \in DOMAIN c : j > i /\ c[j] = (IF c[i] = "{" THEN "}" ELSE "]")}
  IN SubSeq(c, i, CHOOSE j \in closers : \A l \in closers : l <= j)

RetryAsClaimed(c, r) ==
  /\ r.parses = 2
  /\ IF JSONValid(FirstBracketed(c))
     THEN r.ok /\ r.value = JSONValue(FirstBracketed(c))
     ELSE ~r.ok

ParseAsClaimed(c, r) ==
  IF JSONValid(c) THEN r.ok /\ r.value = JSONValue(c) /\ r.parses = 1
  ELSE IF Openers(c) = {} THEN ~r.ok /\ r.parses = 1
       ELSE RetryAsClaimed(c, r)

C19_ParseThenOneRetry ==
  \A s \in DOMAIN reqs :
    ParseDone(s) => ParseAsClaimed(Cleaned(reqs[s].body.text), reqs[s].resp)

\* a fenced answer with prose in front: the cleaned text is not JSON, the
\* second attempt returns the object
C19_Witness ==
  \E s \in DOMAIN reqs :
    /\ ParseDone(s)
    /\ reqs[s].body.text = ProsePiece \o FenceJsonPiece \o ObjectPiece
    /\ reqs[s].resp.ok
    /\ reqs[s].resp.parses = 2
    /\ reqs[s].resp.value = ObjectPiece

(***************************************************************************)
(* C20.  The offline embed(text) is a function of the text alone: two      *)
(* calls with the same text, whatever the tables hold at either call and   *)
(* whatever happened in between, return the same vector.                   *)
(***************************************************************************)
EmbedDone(s) == reqs[s].kind = "embed" /\ reqs[s].pc = "done"

C21_UnitOrZero ==
  \A s \in DOMAIN reqs :
    EmbedDone(s) =>
      /\ DOMAIN reqs[s].resp.embedding.sums = 0..383
      /\ tokenize(reqs[s].body.text) = <<>> =>
            \A i \in 0..383 : reqs[s].resp.embedding.sums[i] = 0
      /\ tokenize(reqs[s].body.text) # <<>> => reqs[s].resp.embedding.unit

(***************************************************************************)
(* C22.  Decoding an encoded embedding gives back the same vector: it has  *)
(* the same length, each component is the component of the original to     *)
(* the precision of a float (half a unit of its last place), and the       *)
(* buffer holds four bytes per component, the lowest first.                *)
(***************************************************************************)
LoadDone == reqs[2].kind = "load" /\ reqs[2].pc = "done"

\* d is a float no further from v than half a unit in the last place
WithinFloat(v, d) ==
  /\ d.rest = 0
  /\ d.neg = v.neg
  /\ d.zero = v.zero
  /\ \/ v.zero
     \/ d.exp = v.exp /\ d.frac = v.frac /\ v.rest <= HalfRest
     \/ d.exp = v.exp /\ d.frac = v.frac + 1 /\ RestBits - v.rest <= HalfRest
     \/ /\ d.exp = v.exp + 1 /\ d.frac = 0 /\ v.frac = FracBits - 1
        /\ RestBits - v.rest <= HalfRest

\* the sign and the high bits of the exponent are in the fourth byte
LowestFirst(v, buffer, i) ==
  buffer[4 * i] = (IF v[i].neg THEN 128 ELSE 0) + Biased(Fround(v[i])) \div 2

RoundTrip(v, buffer, d) ==
  /\ Len(d) = Len(v)
  /\ Len(buffer) = 4 * Len(v)
  /\ \A k \in DOMAIN buffer : buffer[k] \in 0..255
  /\ \A i \in DOMAIN v : WithinFloat(v[i], d[i]) /\ LowestFirst(v, buffer, i)

C22_DecodeOfEncode ==
  LoadDone => RoundTrip(reqs[1].body.embedding, reqs[1].resp.buffer,
                        reqs[2].resp.embedding)

\* a vector whose first component rounds up into the next exponent and
\* whose second is a negative tie rounded to even
C22_Witness ==
  /\ LoadDone
  /\ reqs[1].body.embedding = <<Double(FALSE, -1, FracBits - 1, HalfRest),
                                Double(TRUE, 0, 0, HalfRest)>>
  /\ reqs[2].resp.embedding = <<Double(FALSE, 0, 0, 0), Double(TRUE, 0, 0, 0)>>
  /\ reqs[1].resp.buffer = <<0, 0, 128, 63, 0, 0, 128, 191>>

(***************************************************************************)
(* C23.  After any sequence of confirms, person updates and profile        *)
(* regenerations, every person that has a stored embedding has the         *)
(* embedding of its current context.  Checked when no request is under     *)
(* way.                                                                    *)
(***************************************************************************)
Quiet == \A s \in DOMAIN reqs : Free(s)

C23_VectorOfCurrentContext ==
  Quiet =>
    \A k \in DOMAIN db.people :
      db.people[k].embedding # NoEmbedding =>
        db.people[k].embedding = Embed(db.people[k].context)

(***************************************************************************)
(* C24.  In the live sync, under any interleaving of batches, there is at  *)
(* most one whatsapp-live meeting per person per day, and every message    *)
(* of every processed batch is in the raw text of that meeting.            *)
(***************************************************************************)
BatchDone(s) == reqs[s].kind = "batch" /\ reqs[s].pc = "done"

LiveMeetingsOf(personId) ==
  {k \in DOMAIN db.meetings :
     /\ db.meetings[k].source = "whatsapp-live"
     /\ db.meetings[k].personId = personId}

C24_OneLiveMeetingWithAllMessages ==
  \A s \in DOMAIN reqs :
    BatchDone(s) =>
      /\ Cardinality(LiveMeetingsOf(reqs[s].loc.personId)) = 1
      /\ \A k \in LiveMeetingsOf(reqs[s].loc.personId) :
           \A i \in DOMAIN reqs[s].body.messages :
             reqs[s].body.messages[i] \in Range(db.meetings[k].rawInput)


(***************************************************************************)
(* C25: when two confirms that link the same existing person run at the    *)
(* same time, the person's context afterwards holds both summaries: once   *)
(* no confirm is in flight, every person's context has one summary for     *)
(* each meeting the person is linked to.                                   *)
(***************************************************************************)
LinksOf(personId) ==
  Len(SelectSeq(db.meetingPeople, LAMBDA l : l.personId = personId))

C25_ContextKeepsBothSummaries ==
  Quiet => \A k \in DOMAIN db.people :
             Len(db.people[k].context) >= LinksOf(db.people[k].id)


(***************************************************************************)
(* C26: two quick logs that mention the same name, absent from the roster, *)
(* leave exactly one person with that name in every interleaving: once no  *)
(* request is in flight, no two people rows carry the same name.           *)
(***************************************************************************)
C26_OnePersonPerName ==
  Quiet => \A j, k \in DOMAIN db.people :
             db.people[j].name = db.people[k].name => j = k


(***************************************************************************)
(* C27: after any confirm, also one with two assignments naming the same   *)
(* person id, no relationship row joins a person to itself and a meeting   *)
(* has at most one link row per person.                                    *)
(***************************************************************************)
NoSelfRelationship ==
  \A k \in DOMAIN db.relationships :
    db.relationships[k].personAId # db.relationships[k].personBId

OneLinkPerPerson ==
  \A j, k \in DOMAIN db.meetingPeople :
    (/\ db.meetingPeople[j].meetingId = db.meetingPeople[k].meetingId
     /\ db.meetingPeople[j].personId = db.meetingPeople[k].personId) => j = k

C27_NoSelfPairNoDoubleLink ==
  Quiet => NoSelfRelationship /\ OneLinkPerPerson


(***************************************************************************)
(* C28: offline, the summary and the topics of a preview come from the     *)
(* note alone: every sentence of the summary is a sentence of the note     *)
(* and every word of every topic is a token of the note; the wording the   *)
(* preview puts around the note adds nothing.                              *)
(***************************************************************************)
SummaryDone(s) == reqs[s].kind = "summarize" /\ reqs[s].pc = "done"

WordsOfTopic(topic) == Range(SplitOn(topic, 1, {" "}, FALSE))

C28_SummaryAndTopicsOfNoteAlone ==
  \A s \in DOMAIN reqs :
    SummaryDone(s) =>
      /\ Range(SentencesOf(reqs[s].resp.summary))
            \subseteq Range(SentencesOf(reqs[s].body.text))
      /\ \A k \in DOMAIN reqs[s].resp.topics :
            WordsOfTopic(reqs[s].resp.topics[k])
              \subseteq Range(tokenize(reqs[s].body.text))


(***************************************************************************)
(* C29: importing the same parsed chat a second time creates no person     *)
(* and no meeting: the second run reports meetingsCreated 0 and an empty   *)
(* newPeople.                                                              *)
(***************************************************************************)
SecondImportDone(s) ==
  reqs[s].kind = "import" /\ reqs[s].pc = "done" /\ reqs[s].prev.kind = "import"

C29_SecondImportCreatesNothing ==
  \A s \in DOMAIN reqs :
    SecondImportDone(s) =>
      reqs[s].resp.meetingsCreated = 0 /\ reqs[s].resp.newPeople = <<>>


(***************************************************************************)
(* C30: a batch is processed no earlier than 5 seconds after the most      *)
(* recent message of its chat: when processBatch is called for a chat,     *)
(* every text message of the chat handed to handleMessage so far was       *)
(* handed to it at least DEBOUNCE_MS ago.                                  *)
(***************************************************************************)
\* the text messages of chat c that were handed to handleMessage
HandedOf(c) ==
  {s \in DOMAIN reqs : /\ reqs[s].pc # "idle"
                       /\ reqs[s].body.chatId = c
                       /\ reqs[s].body.body # ""
                       /\ ~reqs[s].body.isStatus}

BatchProcessed(c) ==
  /\ Len(db'.batches) = Len(db.batches) + 1
  /\ db'.batches[Len(db'.batches)].chatId = c

C30_ProcessedAfterQuietPeriod ==
  [][\A c \in DebounceChats :
       BatchProcessed(c) =>
         \A s \in HandedOf(c) : reqs[s].loc.age >= DEBOUNCE_MS]_vars

\* the same for the messages of the batch only
BatchAfterItsMessages ==
  [][\A c \in DebounceChats :
       BatchProcessed(c) =>
         \A s \in Range(db'.batches[Len(db'.batches)].messages) :
           reqs[s].loc.age >= DEBOUNCE_MS]_vars

\* how often message s occurs in the entries of pendingMessages and in the
\* batches
Occurrences(s) ==
  Cardinality({c \in DebounceChats :
                 s \in Range(db.pendingMessages[c].messages)})
  + Cardinality({k \in DOMAIN db.batches : s \in Range(db.batches[k].messages)})

\* a text message of a chat that is no group is, once handleMessage has
\* returned, in one entry or one batch; any other message is in none
EachMessageInOneBatch ==
  \A s \in DOMAIN reqs :
    Occurrences(s) =
      IF /\ reqs[s].pc = "done"
         /\ s \in HandedOf(reqs[s].body.chatId)
         /\ ~isGroup(reqs[s].body.chatId)
      THEN 1 ELSE 0

\* every such message is processed in the end
EachMessageProcessed ==
  \A s \in 1 .. MaxLiveMessages :
    (reqs[s].pc = "getChat" /\ ~isGroup(reqs[s].body.chatId))
      ~> (\E k \in DOMAIN db.batches : s \in Range(db.batches[k].messages))

====
